---- MODULE Spec2Model ----
(***************************************************************************)
(* Poker hand entry (useHandHistory hook + App), replay (useReplay) and    *)
(* hand evaluation (equity.ts) as state machines.                          *)
(*   Spec         the hook driven through its API: initHand, addAction and *)
(*                the delayed advanceStreet timers; one hand at a time.    *)
(*   SpecRestart  the same with initHand called while timers are pending.  *)
(*   SpecApp      the hook driven through the App component: setup form,   *)
(*                ActionInput buttons, board card picker, effects, timers. *)
(*   SpecReplay   a hand entered through the App, then replayed through    *)
(*                useReplay's controls and timers.                         *)
(*   SpecEquity   evaluate5Cards and compareHands on pairs of 5-card hands *)
(*   SpecWheel    the same on hands that hold an ace and a deuce            *)
(*   SpecExact    useEquity and calculateExactEquity on complete boards,    *)
(*                one opponent hand per step, from the 52-card deck         *)
(*   SpecMonteCarlo  useEquity, calculateEquity and calculateExactEquity    *)
(*                from a 12-card deck: shuffle, deal and compare as steps   *)
(*   SpecWorked   the hook driven through initHand, addAction and the       *)
(*                timers along one scripted six-handed hand                 *)
(*   SpecPlayback a hand entered through the App, then played back by its  *)
(*                timers alone, each of which eventually fires              *)
(***************************************************************************)
EXTENDS Integers, Sequences, FiniteSets, TLC

\* ------------------------------------------------------------------ bounds
MaxPlayers == 3     \* playerCount is drawn from 2..MaxPlayers
MaxStack   == 3     \* heroStack is drawn from 1..MaxStack
MaxAmount  == 2     \* addAction amounts are drawn from 0..MaxAmount
MaxLog     == 5     \* longest action log explored (blinds included)
MaxTimers  == 2     \* most setTimeout callbacks pending at once
MaxBoard   == 6     \* most community cards explored
MaxAppLog  == 6     \* longest action log explored through the App
CardChoices == 1    \* cards the picker explorations choose among

\* ------------------------------------------------------- program constants
DefaultSB == 1      \* SetupForm's initial small blind
DefaultBB == 2      \* SetupForm's initial big blind

\* ------------------------------------------------------------------- types
Streets == <<"preflop", "flop", "turn", "river">>

StreetSet == {"preflop", "flop", "turn", "river"}

ActionTypes == {"fold", "check", "call", "bet", "raise", "all-in"}

\* streets.indexOf(s), 0-based
StreetIdx(s) == CHOOSE i \in 0..3 : Streets[i + 1] = s

Max2(a, b) == IF a >= b THEN a ELSE b

Min2(a, b) == IF a <= b THEN a ELSE b

\* ------------------------------------------------------------ positions.ts
GetPositions(count) ==
    IF count <= 2 THEN <<"SB", "BB">>
    ELSE IF count = 3 THEN <<"SB", "BB", "BTN">>
    ELSE IF count = 4 THEN <<"SB", "BB", "CO", "BTN">>
    ELSE IF count = 5 THEN <<"SB", "BB", "MP", "CO", "BTN">>
    ELSE <<"SB", "BB", "UTG", "MP", "CO", "BTN">>

\* positions.indexOf(p), 0-based, -1 when absent
IndexOf(seq, p) ==
    IF \E i \in 1..Len(seq) : seq[i] = p
    THEN (CHOOSE i \in 1..Len(seq) : seq[i] = p /\ \A j \in 1..(i - 1) : seq[j] # p) - 1
    ELSE -1

\* ------------------------------------------------------------------- state
VARIABLES
    hand,               \* useHandHistory: HandHistory or NoHand
    currentStreet,
    activePlayerIndex,  \* 0-based seat index
    isHandComplete,
    isAllInShowdown,
    isManualEnd,
    timers,             \* pending setTimeout callbacks, in the order they were set
    view,               \* App: 'setup' | 'play' | 'replay'
    pickingBoard,       \* App: 'flop' | 'turn' | 'river' | "none" (null)
    boardCardsSelected, \* App: cards picked so far for the street being picked
    prevStreetRef,      \* App: prevStreetRef.current
    mode,               \* ActionInput: 'normal' | 'betting'
    isPlaying,          \* useReplay
    currentActionIndex, \* useReplay: -1 shows the blinds only
    playbackSpeed,      \* useReplay
    revealingStreet,    \* useReplay: a street or "none" (null)
    revealTimerRef,     \* useReplay: the pending timer of the reveal effect
    advanceTimer,       \* useReplay: the pending timer of the advance effect
    onCompleteCalls,    \* useReplay: calls of onComplete made by the latest commit
    cardsA,             \* equity: a 5-card hand handed to evaluate5Cards
    cardsB,             \* equity: the hand it is compared with
    scoreA,             \* equity: evaluate5Cards(cardsA), or NotScored
    scoreB,
    fullDeck,           \* equity: the cards createFullDeck() returns
    heroCards,          \* useEquity: the hero's two cards, NoCard for null
    communityCards,     \* useEquity: snapshot.communityCards
    activeOpponents,    \* useEquity: non-hero players with isActive
    simulations,        \* calculateEquity: input.simulations
    frame,              \* the locals of the running calculation, or NoFrame
    equity              \* the EquityResult returned, NullEquity, or NotComputed

vars == <<hand, currentStreet, activePlayerIndex, isHandComplete, isAllInShowdown,
          isManualEnd, timers, view, pickingBoard, boardCardsSelected,
          prevStreetRef, mode, isPlaying, currentActionIndex, playbackSpeed,
          revealingStreet, revealTimerRef, advanceTimer, onCompleteCalls,
          cardsA, cardsB, scoreA, scoreB, fullDeck, heroCards, communityCards, activeOpponents, simulations, frame,
          equity>>

replayVars == <<isPlaying, currentActionIndex, playbackSpeed, revealingStreet,
                revealTimerRef, advanceTimer, onCompleteCalls>>

calcVars == <<fullDeck, heroCards, communityCards, activeOpponents, simulations,
              frame, equity>>

equityVars == <<cardsA, cardsB, scoreA, scoreB, calcVars>>

\* useReplay's useState / useRef initial values
ReplayUnmounted ==
    /\ isPlaying = FALSE
    /\ currentActionIndex = -1
    /\ playbackSpeed = "1"
    /\ revealingStreet = "none"
    /\ revealTimerRef = "none"
    /\ advanceTimer = "none"
    /\ onCompleteCalls = 0

NotScored == <<>>

NoFrame == [fn |-> "none"]

NotComputed == [pending |-> TRUE]

\* the null useEquity returns
NullEquity == [null |-> TRUE]

\* a null entry of Player.cards
NoCard == <<>>

\* no equity calculation has been asked for
CalcIdle ==
    /\ fullDeck = <<>>
    /\ heroCards = <<>> /\ communityCards = <<>>
    /\ activeOpponents = 0 /\ simulations = 0
    /\ frame = NoFrame
    /\ equity = NotComputed

\* no hand has been handed to the evaluator
EquityIdle ==
    /\ cardsA = {} /\ cardsB = {}
    /\ scoreA = NotScored /\ scoreB = NotScored
    /\ CalcIdle

NoHand == [players |-> <<>>, actions |-> <<>>, blinds |-> [sb |-> 0, bb |-> 0],
           heroPosition |-> "none", communityCards |-> <<>>]

\* players[i] for a 0-based i
PlayerAt(players, i) == players[i + 1]

ActivePlayers(players) == {i \in 1..Len(players) : players[i].isActive}

\* ----------------------------------------------------------------- initHand
Configs ==
    {c \in [sb : {DefaultSB}, bb : {DefaultBB}, playerCount : 2..MaxPlayers,
            heroPosition : {"SB", "BB", "BTN"}, heroStack : 1..MaxStack] :
        \* the form offers the positions of the chosen table size, and keeps
        \* its initial 'BTN' when none is clicked
        c.heroPosition = "BTN" \/ IndexOf(GetPositions(c.playerCount), c.heroPosition) # -1}

RotatedPositions(config) ==
    LET positions == GetPositions(config.playerCount)
        heroIdx   == IndexOf(positions, config.heroPosition)
    IN  IF heroIdx # -1
        THEN SubSeq(positions, heroIdx + 1, Len(positions)) \o SubSeq(positions, 1, heroIdx)
        ELSE positions

\* the players array after the blinds are deducted
InitPlayers(config) ==
    LET rot == RotatedPositions(config)
    IN  [i \in 1..Len(rot) |->
            [position |-> rot[i],
             stack    |-> IF rot[i] = "SB" THEN config.heroStack - config.sb
                          ELSE IF rot[i] = "BB" THEN config.heroStack - config.bb
                          ELSE config.heroStack,
             isHero   |-> (i = 1),
             isActive |-> TRUE]]

BlindActions(config) ==
    LET rot == RotatedPositions(config)
        sbA == IF IndexOf(rot, "SB") # -1
               THEN <<[street |-> "preflop", playerPosition |-> "SB", type |-> "bet", amount |-> config.sb]>>
               ELSE <<>>
        bbA == IF IndexOf(rot, "BB") # -1
               THEN <<[street |-> "preflop", playerPosition |-> "BB", type |-> "bet", amount |-> config.bb]>>
               ELSE <<>>
    IN  sbA \o bbA

InitHandState(config) ==
    [players |-> InitPlayers(config), actions |-> BlindActions(config),
     blinds |-> [sb |-> config.sb, bb |-> config.bb],
     heroPosition |-> config.heroPosition, communityCards |-> <<>>]

InitActiveIndex(config) ==
    LET rot   == RotatedPositions(config)
        bbIdx == IndexOf(rot, "BB")
    IN  IF bbIdx # -1 THEN (bbIdx + 1) % Len(rot) ELSE 0

\* ------------------------------------------------------ checkStreetComplete
\* One pass of streetActions.forEach over the two maps.
RECURSIVE ProcessStreetActions(_, _, _, _)
ProcessStreetActions(acts, i, activePos, st) ==
    IF i > Len(acts) THEN st
    ELSE LET a == acts[i]
         IN  IF a.playerPosition \notin activePos
             THEN ProcessStreetActions(acts, i + 1, activePos, st)
             ELSE LET acted1 == [p \in DOMAIN st.acted \cup {a.playerPosition} |->
                                    IF p = a.playerPosition THEN TRUE ELSE st.acted[p]]
                      st1 ==
                        IF a.type \in {"bet", "raise", "call"}
                        THEN LET cur == IF a.playerPosition \in DOMAIN st.bets
                                        THEN st.bets[a.playerPosition] ELSE 0
                             IN  [bets  |-> [p \in DOMAIN st.bets \cup {a.playerPosition} |->
                                               IF p = a.playerPosition THEN cur + a.amount
                                               ELSE st.bets[p]],
                                  acted |-> acted1]
                        ELSE IF a.type = "fold"
                        THEN [bets  |-> [p \in DOMAIN st.bets \ {a.playerPosition} |-> st.bets[p]],
                              acted |-> [p \in DOMAIN acted1 \ {a.playerPosition} |-> acted1[p]]]
                        ELSE [bets |-> st.bets, acted |-> acted1]
                  IN  ProcessStreetActions(acts, i + 1, activePos, st1)

MaxOf(S) == CHOOSE m \in S : \A x \in S : x <= m

Completion(s, h, a) == [isStreetComplete |-> s, isHandComplete |-> h, isAllInShowdown |-> a]

\* the limped-pot check left out: betting that is closed closes the street
BBOptionSkipped(h, street, streetActions, players, maxBet) == FALSE

\* "BB must have option": preflop, nobody has raised over the big blind and the
\* BB, who has chips, has no action on the street besides the blind post
BBOption(h, street, streetActions, players, maxBet) ==
    /\ street = "preflop"
    /\ maxBet = h.blinds.bb
    /\ \E i \in ActivePlayers(players) : players[i].position = "BB" /\ players[i].stack > 0
    /\ Len(SelectSeq(streetActions, LAMBDA a : a.playerPosition = "BB")) <= 1

CheckStreetComplete(h, street, allActions, players) ==
    LET active    == ActivePlayers(players)
        activePos == {players[i].position : i \in active}
        withChips == {i \in active : players[i].stack > 0}
        allPlayersAllIn == Cardinality(withChips) <= 1
        streetActions == SelectSeq(allActions, LAMBDA a : a.street = street)
        st0 == [bets  |-> [p \in activePos |-> 0],
                acted |-> [p \in activePos |->
                            \E i \in active : players[i].position = p /\ players[i].stack = 0]]
        st  == ProcessStreetActions(streetActions, 1, activePos, st0)
        allActed == \A p \in DOMAIN st.acted : st.acted[p]
        remainingBets == {st.bets[p] : p \in DOMAIN st.bets}
        maxBet == MaxOf(remainingBets)
        betOf(p) == IF p \in DOMAIN st.bets THEN st.bets[p] ELSE 0
        bettingClosed == \A i \in active :
                            betOf(players[i].position) = maxBet \/ players[i].stack = 0
        bbOption == BBOption(h, street, streetActions, players, maxBet)
    IN  IF h = NoHand THEN Completion(FALSE, FALSE, FALSE)
        ELSE IF Cardinality(active) <= 1 THEN Completion(TRUE, TRUE, FALSE)
        ELSE IF ~allActed THEN Completion(FALSE, FALSE, FALSE)
        ELSE IF remainingBets = {}
             THEN IF street = "river" THEN Completion(TRUE, TRUE, FALSE)
                  ELSE Completion(TRUE, FALSE, allPlayersAllIn)
        ELSE IF bettingClosed
             THEN IF bbOption THEN Completion(FALSE, FALSE, FALSE)
                  ELSE IF street = "river" THEN Completion(TRUE, TRUE, FALSE)
                  ELSE Completion(TRUE, FALSE, allPlayersAllIn)
        ELSE Completion(FALSE, FALSE, FALSE)

\* ---------------------------------------------------------- moveToNextPlayer
\* the while loop: first seat after `from` that is not folded and has chips
RECURSIVE NextActor(_, _, _)
NextActor(players, nextIdx, loopCount) ==
    IF loopCount >= Len(players) THEN nextIdx
    ELSE IF PlayerAt(players, nextIdx).isActive /\ PlayerAt(players, nextIdx).stack > 0
         THEN nextIdx
         ELSE NextActor(players, (nextIdx + 1) % Len(players), loopCount + 1)

\* a pending `setTimeout(() => advanceStreet(allIn), 500)`: the callback closes
\* over the currentStreet of the render that scheduled it
StreetTimer(street, allIn) ==
    [kind |-> "street", street |-> street, allIn |-> allIn, late |-> FALSE, blocked |-> FALSE]

\* a pending `setTimeout(..., 300)` of handleBoardCardSelect: the callback
\* closes over pickingBoard and over advanceStreet (so over currentStreet)
BoardTimer(picking, street, blocked) ==
    [kind |-> "board", street |-> street, allIn |-> TRUE, picking |-> picking,
     late |-> FALSE, blocked |-> blocked]

\* --------------------------------------------------- the state as one record
S == [hand |-> hand, currentStreet |-> currentStreet,
      activePlayerIndex |-> activePlayerIndex, isHandComplete |-> isHandComplete,
      isAllInShowdown |-> isAllInShowdown, isManualEnd |-> isManualEnd,
      timers |-> timers, view |-> view, pickingBoard |-> pickingBoard,
      boardCardsSelected |-> boardCardsSelected, prevStreetRef |-> prevStreetRef,
      mode |-> mode]

Commit(s) ==
    /\ hand' = s.hand
    /\ currentStreet' = s.currentStreet
    /\ activePlayerIndex' = s.activePlayerIndex
    /\ isHandComplete' = s.isHandComplete
    /\ isAllInShowdown' = s.isAllInShowdown
    /\ isManualEnd' = s.isManualEnd
    /\ timers' = s.timers
    /\ view' = s.view
    /\ pickingBoard' = s.pickingBoard
    /\ boardCardsSelected' = s.boardCardsSelected
    /\ prevStreetRef' = s.prevStreetRef
    /\ mode' = s.mode
    /\ UNCHANGED <<replayVars, equityVars>>

\* ------------------------------------------------------ useHandHistory hook
initHand(s, config) ==
    [s EXCEPT !.isHandComplete = FALSE,
              !.isAllInShowdown = FALSE,
              !.isManualEnd = FALSE,
              !.hand = InitHandState(config),
              !.currentStreet = "preflop",
              !.activePlayerIndex = InitActiveIndex(config)]

\* hand.players.map(...) of addAction
UpdatedPlayers(players, idx, type, amount) ==
    [i \in 1..Len(players) |->
        IF i = idx + 1
        THEN IF type = "fold" THEN [players[i] EXCEPT !.isActive = FALSE]
             ELSE IF amount > 0
                  THEN [players[i] EXCEPT !.stack = Max2(0, players[i].stack - amount)]
                  ELSE players[i]
        ELSE players[i]]

\* The caller has already put the new action and players into s.hand; the
\* closure's `hand` is only read for null and for blinds.bb, which do not change.
moveToNextPlayer(s, allActions, updatedPlayers) ==
    LET completion == CheckStreetComplete(s.hand, s.currentStreet, allActions, updatedPlayers)
    IN  IF s.hand = NoHand \/ s.isHandComplete THEN s
        ELSE IF completion.isHandComplete THEN [s EXCEPT !.isHandComplete = TRUE]
        ELSE IF completion.isStreetComplete
             THEN [s EXCEPT !.isAllInShowdown = @ \/ completion.isAllInShowdown,
                            !.timers = Append(@, StreetTimer(s.currentStreet,
                                                             completion.isAllInShowdown))]
        ELSE [s EXCEPT !.isAllInShowdown = @ \/ completion.isAllInShowdown,
                       !.activePlayerIndex =
                           NextActor(updatedPlayers,
                                     (s.activePlayerIndex + 1) % Len(updatedPlayers), 0)]

addAction(s, type, amount) ==
    IF s.hand = NoHand \/ s.activePlayerIndex >= Len(s.hand.players) THEN s
    ELSE
    LET player     == PlayerAt(s.hand.players, s.activePlayerIndex)
        newAction  == [street |-> s.currentStreet, playerPosition |-> player.position,
                       type |-> type, amount |-> amount]
        updated    == UpdatedPlayers(s.hand.players, s.activePlayerIndex, type, amount)
        allActions == Append(s.hand.actions, newAction)
    IN  moveToNextPlayer(
            [s EXCEPT !.hand = [s.hand EXCEPT !.players = updated, !.actions = allActions]],
            allActions, updated)

\* advanceStreet of the render whose currentStreet was `street`
advanceStreet(s, street, allInShowdown) ==
    IF StreetIdx(street) < Len(Streets) - 1
    THEN [s EXCEPT !.currentStreet = Streets[StreetIdx(street) + 2],
                   !.activePlayerIndex = 0,
                   !.isAllInShowdown = @ \/ allInShowdown]
    ELSE s

setCommunityCards(s, cards) ==
    IF s.hand = NoHand THEN s ELSE [s EXCEPT !.hand.communityCards = cards]

\* the callback of a pending timer
TimerCallback(s, t) ==
    IF t.kind = "street" THEN advanceStreet(s, t.street, t.allIn)
    ELSE IF t.picking \in {"flop", "turn"} THEN advanceStreet(s, t.street, TRUE)
    ELSE s

\* setTimeout delays: 500 ms in moveToNextPlayer, 300 ms in handleBoardCardSelect
TimerDelay(t) == IF t.kind = "street" THEN 500 ELSE 300

\* Timers expire in the order of their deadlines. A timer set earlier with a
\* delay that is not longer expires first; a 300 ms timer can expire before a
\* 500 ms timer set earlier, unless it was set after a timer younger than that
\* one had already expired (`blocked`: more than 300 ms after it was set).
CanFire(ts, i) ==
    \A j \in 1..(i - 1) : TimerDelay(ts[j]) > TimerDelay(ts[i]) /\ ~ts[i].blocked

\* a timer set now cannot expire before the timers that are `late`
Blocked(ts) == \E j \in 1..Len(ts) : ts[j].late

\* the pending timers once ts[i] has expired: those set before it are late
RemoveAt(seq, i) ==
    [j \in 1..(i - 1) |-> [seq[j] EXCEPT !.late = TRUE]] \o SubSeq(seq, i + 1, Len(seq))

\* ------------------------------------------------------------ getStreetState
ChipTypesLive == {"bet", "raise", "call"}

RECURSIVE SumAmounts(_, _)
SumAmounts(acts, types) ==
    IF acts = <<>> THEN 0
    ELSE (IF Head(acts).type \in types THEN Head(acts).amount ELSE 0)
         + SumAmounts(Tail(acts), types)

\* currentStreetActions.forEach: st = [bets: position -> total, last: lastRaiseAmount]
RECURSIVE StreetBetsLoop(_, _, _)
StreetBetsLoop(acts, i, st) ==
    IF i > Len(acts) THEN st
    ELSE LET a == acts[i]
         IN  IF a.type \notin ChipTypesLive THEN StreetBetsLoop(acts, i + 1, st)
             ELSE LET prevBet    == IF a.playerPosition \in DOMAIN st.bets
                                    THEN st.bets[a.playerPosition] ELSE 0
                      newTotal   == prevBet + a.amount
                      currentMax == MaxOf({st.bets[p] : p \in DOMAIN st.bets})
                      raiseBy    == newTotal - currentMax
                      last1 == IF a.type = "raise" \/ (a.type = "bet" /\ currentMax > 0)
                               THEN (IF raiseBy > st.last THEN raiseBy ELSE st.last)
                               ELSE IF a.type = "bet" THEN a.amount
                               ELSE st.last
                  IN  StreetBetsLoop(acts, i + 1,
                        [bets |-> [p \in DOMAIN st.bets \cup {a.playerPosition} |->
                                     IF p = a.playerPosition THEN newTotal ELSE st.bets[p]],
                         last |-> last1])

getStreetState(s) ==
    IF s.hand = NoHand
    THEN [maxBet |-> 0, heroBet |-> 0, canCheck |-> TRUE, toCall |-> 0, minRaise |-> 0,
          pot |-> 0, activePlayerStack |-> 0]
    ELSE
    LET h   == s.hand
        pot == SumAmounts(h.actions, ChipTypesLive)
        currentStreetActions == SelectSeq(h.actions, LAMBDA a : a.street = s.currentStreet)
        st  == StreetBetsLoop(currentStreetActions, 1,
                   [bets |-> [p \in {h.players[i].position : i \in 1..Len(h.players)} |-> 0],
                    last |-> h.blinds.bb])
        maxBet == MaxOf({IF s.currentStreet = "preflop" THEN h.blinds.bb ELSE 0}
                        \cup {st.bets[p] : p \in DOMAIN st.bets})
    IN  IF s.activePlayerIndex >= Len(h.players)
        THEN [maxBet |-> maxBet, heroBet |-> 0, canCheck |-> TRUE, toCall |-> 0,
              minRaise |-> h.blinds.bb, pot |-> pot, activePlayerStack |-> 0]
        ELSE
        LET activePlayer == PlayerAt(h.players, s.activePlayerIndex)
            heroBet  == st.bets[activePlayer.position]
            toCall   == maxBet - heroBet
            minRaise == (maxBet + st.last) - heroBet
        IN  [maxBet |-> maxBet, heroBet |-> heroBet, canCheck |-> (toCall = 0),
             toCall |-> toCall, minRaise |-> Max2(minRaise, h.blinds.bb), pot |-> pot,
             activePlayerStack |-> activePlayer.stack]

\* ---------------------------------------------------------------- App.tsx
\* The hero-card picker that handleStart opens is left out: it defers the first
\* click of a hand and changes nothing that is read below.
\* <ActionInput> is rendered
ActionInputShown(s) ==
    s.view = "play" /\ ~s.isManualEnd /\ ~s.isAllInShowdown

\* the board <CardPicker> modal is rendered
BoardPickerShown(s) == s.view = "play" /\ s.pickingBoard # "none"

\* The modal is a `fixed inset-0` overlay: while it is rendered it covers the
\* header and the panels below it, and every click lands on the picker.
Clickable(s) == ~BoardPickerShown(s)

\* One commit's effects, all reading the state of the render that ran them.
Effects(s) ==
    LET streetChanged == s.currentStreet # s.prevStreetRef /\ s.hand # NoHand
        prompt  == streetChanged /\ s.currentStreet \in {"flop", "turn", "river"}
        n       == Len(s.hand.communityCards)
        runOut  == /\ s.isAllInShowdown /\ s.hand # NoHand /\ s.pickingBoard = "none"
                   /\ \/ s.currentStreet = "flop" /\ n = 0
                      \/ s.currentStreet = "turn" /\ n = 3
                      \/ s.currentStreet = "river" /\ n = 4
    IN  [s EXCEPT
           !.view = IF s.isHandComplete /\ s.view = "play" THEN "replay" ELSE @,
           !.pickingBoard = IF runOut \/ prompt THEN s.currentStreet ELSE @,
           !.boardCardsSelected = IF runOut \/ prompt THEN <<>> ELSE @,
           !.prevStreetRef = IF streetChanged THEN s.currentStreet ELSE @,
           !.isHandComplete =
               IF s.isAllInShowdown /\ s.currentStreet = "river" /\ n = 5 THEN TRUE ELSE @]

\* re-render until no effect changes anything; an unmounted ActionInput loses
\* its local state
RECURSIVE Render(_)
Render(s) ==
    LET s1 == Effects(s)
        s2 == IF ActionInputShown(s1) THEN s1 ELSE [s1 EXCEPT !.mode = "normal"]
    IN  IF s2 = s THEN s ELSE Render(s2)

handleStart(s, config) ==
    [initHand(s, config) EXCEPT !.view = "play", !.prevStreetRef = "preflop"]

handleBoardCardSelect(s, card) ==
    LET newCards    == Append(s.boardCardsSelected, card)
        cardsNeeded == IF s.pickingBoard = "flop" THEN 3 ELSE 1
    IN  IF Len(newCards) >= cardsNeeded
        THEN LET s1 == [setCommunityCards(s, s.hand.communityCards \o newCards)
                            EXCEPT !.pickingBoard = "none", !.boardCardsSelected = <<>>]
             IN  IF s.isAllInShowdown
                 THEN [s1 EXCEPT !.timers = Append(@, BoardTimer(s.pickingBoard, s.currentStreet,
                                                                   Blocked(s.timers)))]
                 ELSE s1
        ELSE [s EXCEPT !.boardCardsSelected = newCards]

handleManualBoardCardSelect(s, card) ==
    LET newCards    == Append(s.boardCardsSelected, card)
        cardsNeeded == IF s.pickingBoard = "flop" THEN 3 ELSE 1
    IN  IF Len(newCards) >= cardsNeeded
        THEN [setCommunityCards(s, s.hand.communityCards \o newCards)
                  EXCEPT !.pickingBoard = "none", !.boardCardsSelected = <<>>]
        ELSE [s EXCEPT !.boardCardsSelected = newCards]

startPickingBoardForStreet(s, street) ==
    [s EXCEPT !.pickingBoard = street, !.boardCardsSelected = <<>>, !.currentStreet = street]

\* the cards the board picker does not disable
NumRanks == 13

NumSuits == 4

Deck == 1..(NumRanks * NumSuits)

RangeOf(seq) == {seq[i] : i \in 1..Len(seq)}

ExcludedCards(s) == RangeOf(s.hand.communityCards) \cup RangeOf(s.boardCardsSelected)

\* the cards are interchangeable: the picks explored are the CardChoices
\* lowest cards still offered
Pickable(s) ==
    LET excluded == ExcludedCards(s)
        upTo     == Min2(NumRanks * NumSuits, Cardinality(excluded) + CardChoices)
    IN  {c \in 1..upTo : c \notin excluded /\ Cardinality((1..c) \ excluded) <= CardChoices}

\* ------------------------------------------------------ ActionInput.tsx
\* capToStack over every amount that can be typed
CapToStack(playerStack) ==
    IF playerStack >= 0 THEN 0..playerStack ELSE {playerStack}

\* Math.min(callAmount, playerStack)
effectiveCallAmount(callAmount, playerStack) == Min2(callAmount, playerStack)

\* What <ActionInput> offers in state s: the set of <<what, type, amount>> clicks.
ActionInputOffers(s) ==
    LET ss          == getStreetState(s)
        playerStack == ss.activePlayerStack
        effCall     == effectiveCallAmount(ss.toCall, playerStack)
        isRaise     == ~(ss.canCheck /\ s.currentStreet # "preflop")
    IN  IF ~ActionInputShown(s) \/ ~Clickable(s) THEN {}
        ELSE IF s.mode = "betting"
        THEN {<<"submit", IF isRaise THEN "raise" ELSE "bet", a>> : a \in CapToStack(playerStack)}
             \cup {<<"cancel", "none", 0>>}
        ELSE {<<"action", "fold", 0>>}
             \cup (IF ss.canCheck THEN {<<"action", "check", 0>>} ELSE {})
             \cup (IF playerStack > 0 /\ ~ss.canCheck
                   THEN {<<"action", "call", effCall>>} ELSE {})
             \cup (IF playerStack > 0 /\ ~(playerStack <= effCall)
                   THEN {<<"bet", "none", 0>>} ELSE {})
             \cup (IF playerStack > 0 THEN {<<"end", "none", 0>>} ELSE {})

\* -------------------------------------------------- hook-level specification
\* would addAction schedule a timer / grow the log beyond the explored bounds
WithinBounds(s) ==
    /\ Len(s.hand.actions) <= MaxLog
    /\ Len(s.hand.communityCards) <= MaxBoard
    /\ Len(s.timers) <= MaxTimers

\* a hand is started once the timers of the hand before it have run
InitHand(config) ==
    /\ timers = <<>>
    /\ Commit(initHand(S, config))

AddAction(type, amount) ==
    /\ hand # NoHand
    /\ WithinBounds(addAction(S, type, amount))
    /\ Commit(addAction(S, type, amount))

FireTimer(i) ==
    /\ i \in 1..Len(timers)
    /\ CanFire(timers, i)
    /\ Commit(TimerCallback([S EXCEPT !.timers = RemoveAt(@, i)], timers[i]))

Init ==
    /\ hand = NoHand
    /\ currentStreet = "preflop"
    /\ activePlayerIndex = 0
    /\ isHandComplete = FALSE
    /\ isAllInShowdown = FALSE
    /\ isManualEnd = FALSE
    /\ timers = <<>>
    /\ view = "setup"
    /\ pickingBoard = "none"
    /\ boardCardsSelected = <<>>
    /\ prevStreetRef = "preflop"
    /\ mode = "normal"
    /\ ReplayUnmounted
    /\ EquityIdle

Next ==
    \/ \E config \in Configs : InitHand(config)
    \/ \E type \in {"fold", "check"} : AddAction(type, 0)
    \/ \E type \in {"call", "bet", "raise", "all-in"}, amount \in 0..MaxAmount :
            AddAction(type, amount)
    \/ \E i \in 1..MaxTimers : FireTimer(i)

Spec == Init /\ [][Next]_vars

\* A hand started while timers of the hand before it are still pending:
\* heads-up hands with the hero in the small blind, and the actions the panel
\* sends (fold, check, call and raise of a positive amount).
RestartConfigs ==
    {c \in Configs : c.playerCount = 2 /\ c.heroPosition = "SB" /\ c.heroStack >= DefaultBB}

Restart(config) ==
    /\ Commit(initHand(S, config))

NextRestart ==
    \/ \E config \in RestartConfigs : Restart(config)
    \/ \E type \in {"fold", "check"} : AddAction(type, 0)
    \/ \E type \in {"call", "raise"}, amount \in 1..MaxAmount : AddAction(type, amount)
    \/ \E i \in 1..MaxTimers : FireTimer(i)

SpecRestart == Init /\ [][NextRestart]_vars

\* --------------------------------------------------- App-level specification
AppWithinBounds(s) ==
    /\ Len(s.hand.actions) <= MaxAppLog
    /\ Len(s.hand.communityCards) <= MaxBoard
    /\ Len(s.timers) <= MaxTimers

AppStep(s) == AppWithinBounds(s) /\ Commit(Render(s))

\* a hand is started once the timers of the hand before it have run and its
\* picker is closed
HandleStart(config) ==
    /\ view = "setup"
    /\ timers = <<>> /\ pickingBoard = "none"
    /\ AppStep(handleStart(S, config))

NewHand ==
    /\ view = "play" /\ Clickable(S)
    /\ AppStep([S EXCEPT !.view = "setup"])

ExitReplay ==
    /\ view = "replay"
    /\ AppStep([S EXCEPT !.view = "setup"])

\* FOLD, CHECK or CALL of the normal panels
ClickAction ==
    \E o \in ActionInputOffers(S) :
        /\ o[1] = "action"
        /\ AppStep(addAction(S, o[2], o[3]))

\* the BET / RAISE button opens the amount panel
ClickBet ==
    /\ <<"bet", "none", 0>> \in ActionInputOffers(S)
    /\ AppStep([S EXCEPT !.mode = "betting"])

SubmitBet ==
    \E o \in ActionInputOffers(S) :
        /\ o[1] = "submit"
        /\ AppStep([addAction(S, o[2], o[3]) EXCEPT !.mode = "normal"])

CancelBet ==
    /\ <<"cancel", "none", 0>> \in ActionInputOffers(S)
    /\ AppStep([S EXCEPT !.mode = "normal"])

EndHand ==
    /\ <<"end", "none", 0>> \in ActionInputOffers(S)
    /\ AppStep([S EXCEPT !.isManualEnd = TRUE])

BoardCardSelect(card) ==
    /\ BoardPickerShown(S) /\ ~isManualEnd
    /\ AppStep(handleBoardCardSelect(S, card))

ManualBoardCardSelect(card) ==
    /\ BoardPickerShown(S) /\ isManualEnd
    /\ AppStep(handleManualBoardCardSelect(S, card))

ManualPick(street) ==
    /\ view = "play" /\ isManualEnd /\ Clickable(S)
    /\ LET n == Len(hand.communityCards)
       IN  \/ street = "flop" /\ n < 3
           \/ street = "turn" /\ n = 3
           \/ street = "river" /\ n = 4
    /\ AppStep(startPickingBoardForStreet(S, street))

FinishManualEnd ==
    /\ view = "play" /\ isManualEnd /\ Clickable(S)
    /\ AppStep([S EXCEPT !.isHandComplete = TRUE])

AppTimer(i) ==
    /\ i \in 1..Len(timers)
    /\ CanFire(timers, i)
    /\ AppStep(TimerCallback([S EXCEPT !.timers = RemoveAt(@, i)], timers[i]))

NextApp ==
    \/ \E config \in Configs : HandleStart(config)
    \/ NewHand
    \/ ExitReplay
    \/ ClickAction
    \/ ClickBet
    \/ SubmitBet
    \/ CancelBet
    \/ EndHand
    \/ \E card \in Pickable(S) : BoardCardSelect(card)
    \/ \E card \in Pickable(S) : ManualBoardCardSelect(card)
    \/ \E street \in {"flop", "turn", "river"} : ManualPick(street)
    \/ FinishManualEnd
    \/ \E i \in 1..MaxTimers : AppTimer(i)

SpecApp == Init /\ [][NextApp]_vars

\* ===================================================================== claims
\* the vocabulary of the street-closure rule, read off the log and the players
NonFolded == ActivePlayers(hand.players)

StreetActionsBy(pos) ==
    SelectSeq(hand.actions, LAMBDA a : a.street = currentStreet /\ a.playerPosition = pos)

\* the action types that take chips from the stack of the player who acts
ChipCommitting == {"bet", "raise", "call", "all-in"}

StreetContribution(pos) == SumAmounts(StreetActionsBy(pos), ChipCommitting)

StreetMaximum == MaxOf({StreetContribution(hand.players[i].position) : i \in NonFolded})

\* (a) every non-folded player with chips has acted on the current street
EveryoneActed ==
    \A i \in NonFolded :
        hand.players[i].stack > 0 => Len(StreetActionsBy(hand.players[i].position)) > 0

\* (b) every non-folded player has matched the street maximum or is all-in
EveryoneMatched ==
    \A i \in NonFolded :
        \/ StreetContribution(hand.players[i].position) = StreetMaximum
        \/ hand.players[i].stack = 0

\* the big blind has only posted: the preflop maximum is still the big blind
BigBlindOption ==
    /\ currentStreet = "preflop"
    /\ StreetMaximum = hand.blinds.bb
    /\ \E i \in NonFolded : hand.players[i].position = "BB" /\ hand.players[i].stack > 0
    /\ Len(StreetActionsBy("BB")) <= 1

ReportedComplete ==
    CheckStreetComplete(hand, currentStreet, hand.actions, hand.players).isStreetComplete

\* no blind was posted from a stack that does not cover it
NoNegativeStack == \A i \in 1..Len(hand.players) : ~(hand.players[i].stack < 0)

\* C1: with at least two non-folded players, checkStreetComplete reports the
\* current street complete if and only if every non-folded player with chips
\* has acted on it and every non-folded player's street contribution equals the
\* street maximum or that player's stack is 0, the big-blind option apart.
\* Stated for the hands in which no stack is negative.
C1_StreetCompleteIff ==
    (hand # NoHand /\ Cardinality(NonFolded) >= 2 /\ NoNegativeStack)
        => (ReportedComplete <=> (EveryoneActed /\ EveryoneMatched /\ ~BigBlindOption))
\* C2: preflop, while the street maximum is the big blind and the big blind is
\* non-folded with chips and has only posted, the street is never reported
\* complete.
C2_BigBlindOptionKeepsStreetOpen ==
    (hand # NoHand /\ BigBlindOption) => ~ReportedComplete

\* C2 with at least two non-folded players: the street is not reported
\* complete while the big blind still has its option.
C2_BigBlindOptionAmongTwo ==
    (hand # NoHand /\ Cardinality(NonFolded) >= 2 /\ BigBlindOption) => ~ReportedComplete

\* every contribution matches and everyone has acted, and only the option
\* keeps the street open
C2_OptionWitness ==
    /\ hand # NoHand
    /\ Len(hand.actions) > 2
    /\ Cardinality(NonFolded) >= 2
    /\ BigBlindOption /\ EveryoneActed /\ EveryoneMatched
    /\ ~ReportedComplete

\* the player whose action is awaited
ActivePlayer == PlayerAt(hand.players, activePlayerIndex)

\* an action is solicited: a hand is running, no street advance is pending
Solicited ==
    /\ hand # NoHand /\ ~isHandComplete /\ ~isAllInShowdown
    /\ timers = <<>>

\* C3: whenever an action is solicited, players[activePlayerIndex] is
\* non-folded and has stack > 0, also right after a street advance. Stated for
\* the hands in which no stack is negative, so that a violation does not rest
\* on blinds posted from a stack that does not cover them.
C3_ActorCanAct ==
    (Solicited /\ NoNegativeStack)
        => (ActivePlayer.isActive /\ ActivePlayer.stack > 0)

\* C4: the log never holds an action of a player after that player's fold.
C4_NoActionAfterFold ==
    \A j, k \in 1..Len(hand.actions) :
        (j < k /\ hand.actions[j].type = "fold")
            => hand.actions[k].playerPosition # hand.actions[j].playerPosition

\* C7: a complete hand is terminal: while isHandComplete stays true the action
\* log, the current street and the active player do not change.
C7_CompleteIsTerminal ==
    [][(isHandComplete /\ isHandComplete')
         => (hand'.actions = hand.actions /\ currentStreet' = currentStreet
             /\ activePlayerIndex' = activePlayerIndex)]_vars

\* a step that appends one action to the log of the running hand
Appends ==
    /\ hand # NoHand
    /\ Len(hand'.actions) = Len(hand.actions) + 1
    /\ SubSeq(hand'.actions, 1, Len(hand.actions)) = hand.actions

\* C8: no action is logged with an amount above the stack its actor had just
\* before it: an over-stack amount is rejected, log and stacks unchanged.
C8_NoAmountAboveStack ==
    [][Appends => hand'.actions[Len(hand'.actions)].amount <= ActivePlayer.stack]_vars

\* C9: every player's stack is >= 0 in every state of the live hand.
C9_StacksNonNegative ==
    \A i \in 1..Len(hand.players) : hand.players[i].stack >= 0
\* a pre-river street is closed among at least two non-folded players of whom
\* at most one has chips
StreetClosedAllIn ==
    /\ hand # NoHand
    /\ currentStreet # "river"
    /\ Cardinality(NonFolded) >= 2
    /\ Cardinality({i \in NonFolded : hand.players[i].stack > 0}) <= 1
    /\ EveryoneActed /\ EveryoneMatched /\ ~BigBlindOption

\* C5: isAllInShowdown turns true exactly in the steps whose action closes a
\* pre-river street among at least two non-folded players of whom at most one
\* has chips, and so never while a player with chips has yet to match.
\* Stated for the hands in which no stack is negative.
C5_ShowdownExactlyOnAllInClose ==
    [][NoNegativeStack' =>
         /\ (~isAllInShowdown /\ isAllInShowdown') => (Appends /\ StreetClosedAllIn')
         /\ (Appends /\ ~isHandComplete /\ StreetClosedAllIn') => isAllInShowdown']_vars
\* C10: the streets of the action log never decrease along the log.
C10_LogStreetsMonotonic ==
    \A j, k \in 1..Len(hand.actions) :
        j < k => StreetIdx(hand.actions[j].street) <= StreetIdx(hand.actions[k].street)
\* the community cards a street shows before and after its cards are selected
BoardOnStreet(street) ==
    IF street = "preflop" THEN {0}
    ELSE IF street = "flop" THEN {0, 3}
    ELSE IF street = "turn" THEN {3, 4}
    ELSE {4, 5}

\* C6: once isAllInShowdown is set no action is appended, the street advances
\* one street at a time as the board cards are selected (flop 3, turn 1,
\* river 1), and the hand is complete exactly when the street is the river and
\* 5 community cards are present.
C6_ShowdownRunOut ==
    [][/\ (isAllInShowdown /\ isAllInShowdown') =>
            /\ hand'.actions = hand.actions
            /\ StreetIdx(currentStreet') \in {StreetIdx(currentStreet), StreetIdx(currentStreet) + 1}
       /\ (hand' # NoHand /\ isAllInShowdown') =>
            /\ Len(hand'.communityCards) \in BoardOnStreet(currentStreet')
            /\ isHandComplete' <=> (currentStreet' = "river" /\ Len(hand'.communityCards) = 5)]_vars

\* ================================================================ useReplay
\* ------------------------------------------------------------ the snapshot
ChipTypesReplay == {"bet", "raise", "call", "all-in"}

FallbackStack == 100

STREET_CARD_COUNT(street) ==
    CASE street = "preflop" -> 0
      [] street = "flop"    -> 3
      [] street = "turn"    -> 4
      [] street = "river"   -> 5

\* seq.slice(0, n)
Slice(seq, n) == SubSeq(seq, 1, Min2(Max2(n, 0), Len(seq)))

ActionsOf(acts, pos) == SelectSeq(acts, LAMBDA a : a.playerPosition = pos)

\* the for loop of the blindActions memo
RECURSIVE BlindScan(_, _, _)
BlindScan(acts, i, blinds) ==
    IF i > Len(acts) THEN blinds
    ELSE IF acts[i].street # "preflop" THEN blinds
    ELSE IF acts[i].playerPosition \in {"SB", "BB"} /\ acts[i].type = "bet"
         THEN IF Len(blinds) + 1 >= 2 THEN Append(blinds, acts[i])
              ELSE BlindScan(acts, i + 1, Append(blinds, acts[i]))
         ELSE BlindScan(acts, i + 1, blinds)

blindActions(h) == IF h = NoHand THEN <<>> ELSE BlindScan(h.actions, 1, <<>>)

voluntaryActions(h) ==
    IF h = NoHand THEN <<>>
    ELSE SubSeq(h.actions, Len(blindActions(h)) + 1, Len(h.actions))

totalVoluntaryActions(h) == Len(voluntaryActions(h))

\* initialStacks.get(position): the final stack plus everything the player put in
initialStacks(h, pos) ==
    LET i == CHOOSE k \in 1..Len(h.players) : h.players[k].position = pos
    IN  h.players[i].stack + SumAmounts(ActionsOf(h.actions, pos), ChipTypesReplay)

\* a fold test that looks at the player's latest visible action only
hasFoldedLatest(visibleActions, pos) ==
    LET mine == ActionsOf(visibleActions, pos)
    IN  mine # <<>> /\ mine[Len(mine)].type = "fold"

\* visibleActions.some(fold of this position)
hasFolded(visibleActions, pos) ==
    \E k \in 1..Len(visibleActions) :
        visibleActions[k].playerPosition = pos /\ visibleActions[k].type = "fold"

\* initialStacks.get(position) || 100
startingStack(h, pos) ==
    IF initialStacks(h, pos) = 0 THEN FallbackStack ELSE initialStacks(h, pos)

\* the snapshot memo for action index idx while `revealing` is revealingStreet
snapshot(h, idx, revealing) ==
    IF h = NoHand
    THEN [players |-> <<>>, communityCards |-> <<>>, pot |-> 0, currentStreet |-> "preflop",
          activePlayerIndex |-> -1, visibleActions |-> <<>>]
    ELSE
    LET vol     == voluntaryActions(h)
        visVol  == IF idx >= 0 THEN Slice(vol, idx + 1) ELSE <<>>
        visible == blindActions(h) \o visVol
        street0 == IF visVol # <<>> THEN visVol[Len(visVol)].street ELSE "preflop"
        isAtEnd == idx >= Len(vol) - 1
        boardCardCount == Len(h.communityCards)
        showAll == isAtEnd /\ boardCardCount > STREET_CARD_COUNT(street0)
        cardCount == IF showAll THEN boardCardCount
                     ELSE IF revealing # "none" THEN STREET_CARD_COUNT(revealing)
                     ELSE STREET_CARD_COUNT(street0)
        street1 == IF showAll
                   THEN (IF boardCardCount >= 5 THEN "river"
                         ELSE IF boardCardCount >= 4 THEN "turn"
                         ELSE IF boardCardCount >= 3 THEN "flop"
                         ELSE street0)
                   ELSE street0
        players == [i \in 1..Len(h.players) |->
                      [h.players[i] EXCEPT
                          !.isActive = ~hasFolded(visible, h.players[i].position),
                          !.stack = startingStack(h, h.players[i].position)
                                    - SumAmounts(ActionsOf(visible, h.players[i].position),
                                                 ChipTypesReplay)]]
        active  == IF visVol # <<>>
                   THEN IndexOf([i \in 1..Len(players) |-> players[i].position],
                                visVol[Len(visVol)].playerPosition)
                   ELSE -1
    IN  [players |-> players, communityCards |-> Slice(h.communityCards, cardCount),
         pot |-> SumAmounts(visible, ChipTypesReplay), currentStreet |-> street1,
         activePlayerIndex |-> active, visibleActions |-> visible]

\* ------------------------------------------------------- the playback state
PlaybackSpeeds == {"0.5", "1", "1.5", "2"}

R == [isPlaying |-> isPlaying, currentActionIndex |-> currentActionIndex,
      playbackSpeed |-> playbackSpeed, revealingStreet |-> revealingStreet,
      revealTimerRef |-> revealTimerRef, advanceTimer |-> advanceTimer,
      onCompleteCalls |-> 0]

handVars == <<hand, currentStreet, activePlayerIndex, isHandComplete, isAllInShowdown,
              isManualEnd, timers, view, pickingBoard, boardCardsSelected,
              prevStreetRef, mode>>

CommitReplay(r) ==
    /\ isPlaying' = r.isPlaying
    /\ currentActionIndex' = r.currentActionIndex
    /\ playbackSpeed' = r.playbackSpeed
    /\ revealingStreet' = r.revealingStreet
    /\ revealTimerRef' = r.revealTimerRef
    /\ advanceTimer' = r.advanceTimer
    /\ onCompleteCalls' = r.onCompleteCalls
    /\ UNCHANGED <<handVars, equityVars>>

\* an effect cleanup that leaves its timer pending
clearTimeoutSkipped(t) == t

\* clearTimeout of a pending (or already fired) timer
clearTimeout(t) == "none"

\* dependency arrays of the two effects; the hand-derived entries do not change
\* while a hand is replayed
RevealDeps(r) == <<r.revealingStreet, r.isPlaying, r.playbackSpeed>>

AdvanceDeps(r) == <<r.isPlaying, r.currentActionIndex, r.playbackSpeed, r.revealingStreet>>

ReplayState(r) == <<r.isPlaying, r.currentActionIndex, r.playbackSpeed, r.revealingStreet>>

\* vol[idx]?.street || 'preflop' for a 0-based idx
StreetAt(vol, idx) ==
    IF idx >= 0 /\ idx < Len(vol) THEN vol[idx + 1].street ELSE "preflop"

\* One commit of a render whose state is `cur` after a render whose state was
\* `prev`: cleanups of the effects whose dependencies changed, then the effect
\* bodies; a state update made by an effect body renders again.
RECURSIVE ReplayRender(_, _, _)
ReplayRender(prev, cur, h) ==
    LET vol     == voluntaryActions(h)
        idx     == cur.currentActionIndex
        c1      == RevealDeps(prev) # RevealDeps(cur)
        c2      == AdvanceDeps(prev) # AdvanceDeps(cur)
        cleaned == [cur EXCEPT !.revealTimerRef = IF c1 THEN clearTimeout(@) ELSE @,
                               !.advanceTimer = IF c2 THEN clearTimeout(@) ELSE @]
        \* Effect 1
        e1 == IF c1 /\ cur.revealingStreet # "none" /\ cur.isPlaying
              THEN [cleaned EXCEPT !.revealTimerRef = "reveal"]
              ELSE cleaned
        \* Effect 2
        nextStreet == StreetAt(vol, idx + 1)
        e2 == IF ~c2 \/ ~cur.isPlaying \/ cur.revealingStreet # "none" THEN e1
              ELSE IF idx >= Len(vol) - 1
                   THEN [e1 EXCEPT !.isPlaying = FALSE, !.onCompleteCalls = @ + 1]
              ELSE IF nextStreet # StreetAt(vol, idx)
                   THEN [e1 EXCEPT !.revealingStreet = nextStreet]
              ELSE [e1 EXCEPT !.advanceTimer = "advance"]
    IN  IF ReplayState(e2) = ReplayState(cur) THEN e2 ELSE ReplayRender(cur, e2, h)

play(r, h) ==
    IF h = NoHand THEN r
    ELSE [r EXCEPT !.currentActionIndex =
                       IF @ >= totalVoluntaryActions(h) - 1 THEN -1 ELSE @,
                   !.isPlaying = TRUE]

pause(r) == [r EXCEPT !.isPlaying = FALSE]

togglePlayPause(r, h) == IF r.isPlaying THEN pause(r) ELSE play(r, h)

stepForward(r, h) ==
    [r EXCEPT !.isPlaying = FALSE,
              !.currentActionIndex = Min2(@ + 1, totalVoluntaryActions(h) - 1)]

stepBack(r) ==
    [r EXCEPT !.isPlaying = FALSE, !.currentActionIndex = Max2(@ - 1, -1)]

\* the same without the clamp to the valid indices
jumpToUnclamped(r, h, index) ==
    [r EXCEPT !.isPlaying = FALSE, !.currentActionIndex = index]

jumpTo(r, h, index) ==
    [r EXCEPT !.isPlaying = FALSE,
              !.currentActionIndex = Max2(-1, Min2(index, totalVoluntaryActions(h) - 1))]

setSpeed(r, speed) == [r EXCEPT !.playbackSpeed = speed]

reset(r) ==
    [r EXCEPT !.isPlaying = FALSE, !.currentActionIndex = -1, !.revealingStreet = "none"]

\* ---------------------------------------------------- replay specification
\* A hand is entered through the App by a user who waits for each delay, then
\* ReplayView mounts useReplay on it.
MaxReplayLog == 7

ReplayConfigs ==
    {c \in [sb : {DefaultSB}, bb : {DefaultBB}, playerCount : 2..MaxPlayers,
            heroPosition : {"SB", "BB", "BTN"}, heroStack : 0..MaxStack] :
        c.heroPosition = "BTN" \/ IndexOf(GetPositions(c.playerCount), c.heroPosition) # -1}

ReplayWithinBounds(s) ==
    /\ Len(s.hand.actions) <= MaxReplayLog
    /\ Len(s.hand.communityCards) <= MaxBoard
    /\ Len(s.timers) <= MaxTimers

RecordStep(s) == ReplayWithinBounds(s) /\ Commit(Render(s))

StartHand(config) ==
    /\ view = "setup" /\ hand = NoHand
    /\ RecordStep(handleStart(S, config))

RecordAction ==
    /\ timers = <<>>
    /\ \E o \in ActionInputOffers(S) :
        /\ o[1] = "action"
        /\ RecordStep(addAction(S, o[2], o[3]))

RecordBoardCard ==
    /\ BoardPickerShown(S) /\ ~isManualEnd
    /\ \E card \in Pickable(S) : RecordStep(handleBoardCardSelect(S, card))

RecordTimer ==
    \E i \in 1..Len(timers) :
        /\ CanFire(timers, i)
        /\ RecordStep(TimerCallback([S EXCEPT !.timers = RemoveAt(@, i)], timers[i]))

\* ReplayView is rendered
ReplayShown == view = "replay" /\ hand # NoHand

ReplayStep(r) == ReplayShown /\ CommitReplay(ReplayRender(R, r, hand))

Play == ReplayStep(play(R, hand))

Pause == ReplayStep(pause(R))

TogglePlayPause == ReplayStep(togglePlayPause(R, hand))

StepForward == ReplayStep(stepForward(R, hand))

StepBack == ReplayStep(stepBack(R))

JumpTo(index) == ReplayStep(jumpTo(R, hand, index))

SetSpeed(speed) == ReplayStep(setSpeed(R, speed))

Reset == ReplayStep(reset(R))

\* the reveal delay elapses: the callback only sets the absorption timer
RevealTimerFires ==
    /\ revealTimerRef = "reveal"
    /\ CommitReplay([R EXCEPT !.revealTimerRef = "absorb"])

\* the absorption delay elapses
AbsorbTimerFires ==
    /\ revealTimerRef = "absorb"
    /\ ReplayStep([R EXCEPT !.revealTimerRef = "none", !.revealingStreet = "none",
                            !.currentActionIndex = @ + 1])

\* the same with the index moved on by two
AdvanceTimerSkips ==
    /\ advanceTimer = "advance"
    /\ ReplayStep([R EXCEPT !.advanceTimer = "none", !.currentActionIndex = @ + 2])

\* the timer of the advance effect elapses
AdvanceTimerFires ==
    /\ advanceTimer = "advance"
    /\ ReplayStep([R EXCEPT !.advanceTimer = "none", !.currentActionIndex = @ + 1])

NextReplay ==
    \/ \E config \in ReplayConfigs : StartHand(config)
    \/ RecordAction
    \/ RecordBoardCard
    \/ RecordTimer
    \/ Play
    \/ Pause
    \/ TogglePlayPause
    \/ StepForward
    \/ StepBack
    \/ \E index \in -2..MaxReplayLog : JumpTo(index)
    \/ \E speed \in PlaybackSpeeds : SetSpeed(speed)
    \/ Reset
    \/ RevealTimerFires
    \/ AbsorbTimerFires
    \/ AdvanceTimerFires

SpecReplay == Init /\ [][NextReplay]_vars

\* ============================================================ replay claims
\* the actions a snapshot at index idx shows, read off the log itself
VisiblePrefix(idx) ==
    SubSeq(hand.actions, 1, Min2(Len(hand.actions), Len(blindActions(hand)) + idx + 1))

ReplayIndices == -1..(totalVoluntaryActions(hand) - 1)

RECURSIVE SumStacksFrom(_, _)
SumStacksFrom(players, i) ==
    IF i > Len(players) THEN 0 ELSE players[i].stack + SumStacksFrom(players, i + 1)

SumStacks(players) == SumStacksFrom(players, 1)

RECURSIVE SumDerivedFrom(_)
SumDerivedFrom(i) ==
    IF i > Len(hand.players) THEN 0
    ELSE initialStacks(hand, hand.players[i].position) + SumDerivedFrom(i + 1)

\* C11: at every replay index from -1 to the last action the snapshot pot is
\* the sum of the amounts of the visible chip-committing actions (bet, raise,
\* call, all-in), and the snapshot stacks plus the pot add up to the derived
\* starting stacks.
C11_PotConservation ==
    ReplayShown =>
        \A idx \in ReplayIndices :
            LET sn == snapshot(hand, idx, revealingStreet)
            IN  /\ sn.pot = SumAmounts(VisiblePrefix(idx), ChipCommitting)
                /\ SumStacks(sn.players) + sn.pot = SumDerivedFrom(1)

IsPrefix(s1, s2) == Len(s1) <= Len(s2) /\ SubSeq(s2, 1, Len(s1)) = s1

\* the live player seated at a position
LivePlayer(h, pos) ==
    h.players[CHOOSE k \in 1..Len(h.players) : h.players[k].position = pos]

SnapshotInactive(idx) ==
    {p.position : p \in {q \in RangeOf(snapshot(hand, idx, "none").players) : ~q.isActive}}

\* in the replay a player inactive at index i is inactive at every later index
FoldMonotonicInReplay ==
    hand # NoHand =>
        LET inactive == [idx \in ReplayIndices |-> SnapshotInactive(idx)]
        IN  \A i \in ReplayIndices : \A j \in ReplayIndices :
                i <= j => inactive[i] \subseteq inactive[j]

\* in live play a step that keeps the hand (its log only grows) keeps every
\* folded player folded
FoldKeptLive ==
    (hand # NoHand /\ hand' # NoHand /\ IsPrefix(hand.actions, hand'.actions)) =>
        \A i \in 1..Len(hand.players) :
            ~hand.players[i].isActive =>
                ~LivePlayer(hand', hand.players[i].position).isActive

\* C12: folding is monotonic and irreversible: a player inactive in the replay
\* snapshot at index i is inactive at every index j >= i of the same hand, and
\* in live play isActive never returns to true after a fold until initHand.
C12_FoldIsIrreversible == [](FoldMonotonicInReplay) /\ [][FoldKeptLive]_vars

\* a player has folded and the log went on after the fold
C12_FoldedThenLater ==
    /\ hand # NoHand
    /\ \E k \in 1..(Len(hand.actions) - 1) :
          /\ hand.actions[k].type = "fold"
          /\ ~LivePlayer(hand, hand.actions[k].playerPosition).isActive
          /\ hand.actions[k].playerPosition \in SnapshotInactive(totalVoluntaryActions(hand) - 1)

PositionsOf(h) == {h.players[i].position : i \in 1..Len(h.players)}

\* initHand has just built the hand from a configuration: every derived
\* starting stack is the configured one
DerivedIsConfigured ==
    \A config \in Configs :
        hand' = InitHandState(config) =>
            \A pos \in PositionsOf(hand') : initialStacks(hand', pos) = config.heroStack

\* an addAction (the log grows) leaves every derived starting stack as it was
DerivedIsKept ==
    (/\ hand # NoHand /\ hand' # NoHand
     /\ IsPrefix(hand.actions, hand'.actions) /\ Len(hand'.actions) > Len(hand.actions)) =>
        \A pos \in PositionsOf(hand) : initialStacks(hand', pos) = initialStacks(hand, pos)

\* the snapshot at the last index shows the live stacks and fold flags
LastSnapshotIsLive ==
    hand # NoHand =>
        LET sn == snapshot(hand, totalVoluntaryActions(hand) - 1, "none")
        IN  \A i \in 1..Len(hand.players) :
                /\ sn.players[i].stack = hand.players[i].stack
                /\ sn.players[i].isActive = hand.players[i].isActive

\* C13: for any hand built by initHand and addAction the starting stack the
\* replay back-derives for each player (final stack plus the player's
\* chip-committing amounts) is the stack configured at initHand, and the
\* snapshot at the last index reproduces each player's live stack and fold
\* status.
C13_DerivedStartingStack ==
    [](LastSnapshotIsLive) /\ [][DerivedIsConfigured /\ DerivedIsKept]_vars

\* the highest contribution any player has made on the current street
StreetTop ==
    MaxOf({StreetContribution(hand.players[i].position) : i \in 1..Len(hand.players)})

\* C14: getStreetState reports canCheck exactly when the acting player's
\* summed contribution on the current street equals the street maximum
\* (toCall = 0); toCall is the street maximum minus the own contribution and is
\* never negative, and the call offered never exceeds the player's stack.
\* Stated for the hands in which no stack is negative.
C14_CanCheckIffMatched ==
    (hand # NoHand /\ activePlayerIndex < Len(hand.players) /\ NoNegativeStack) =>
        LET ss  == getStreetState(S)
            own == StreetContribution(ActivePlayer.position)
        IN  /\ ss.canCheck <=> (own = StreetTop)
            /\ ss.canCheck <=> (ss.toCall = 0)
            /\ ss.toCall = StreetTop - own
            /\ ss.toCall >= 0
            /\ (ss.activePlayerStack > 0 /\ ~ss.canCheck) =>
                   effectiveCallAmount(ss.toCall, ss.activePlayerStack) <= ActivePlayer.stack

NoPendingTimer == revealTimerRef = "none" /\ advanceTimer = "none"

\* the reveal chain and the advance timer are never pending together
AtMostOneTimer == revealTimerRef = "none" \/ advanceTimer = "none"

\* a paused replay has nothing scheduled
PausedIsQuiet == ~isPlaying => NoPendingTimer

\* one of the operations that stop the playback
Stops ==
    \/ Pause
    \/ StepForward
    \/ StepBack
    \/ \E index \in -2..MaxReplayLog : JumpTo(index)
    \/ Reset

\* a step that moves the index while the playback stays stopped is one of
\* the stopping operations, not a timer
IndexMovedWhilePaused == ~isPlaying /\ ~isPlaying' /\ currentActionIndex' # currentActionIndex

\* C15: in the replay driving loop at most one timer that advances the action
\* index is pending in any reachable state, and pause, stepForward, stepBack,
\* jumpTo and reset each cancel any pending advance, so that no timer changes
\* the index after one of them until play is called again.
C15_OnePendingAdvance ==
    /\ [](AtMostOneTimer /\ PausedIsQuiet)
    /\ [][(Stops => (NoPendingTimer' /\ ~isPlaying')) /\ (IndexMovedWhilePaused => Stops)]_vars

\* the playback was stopped in the middle of a reveal, whose timer is gone
C15_StoppedDuringReveal ==
    /\ ReplayShown /\ ~isPlaying
    /\ revealingStreet # "none"
    /\ NoPendingTimer

\* the voluntary action after index idx is on another street than the one at idx
NextOnNewStreet(idx) ==
    /\ idx + 1 < totalVoluntaryActions(hand)
    /\ StreetAt(voluntaryActions(hand), idx + 1) # StreetAt(voluntaryActions(hand), idx)

NextStreetCards(idx) ==
    Slice(hand.communityCards, STREET_CARD_COUNT(StreetAt(voluntaryActions(hand), idx + 1)))

\* playing before a street change is the reveal phase of the new street
InRevealPhase ==
    (ReplayShown /\ isPlaying /\ NextOnNewStreet(currentActionIndex)) =>
        /\ revealingStreet = StreetAt(voluntaryActions(hand), currentActionIndex + 1)
        /\ revealTimerRef # "none" /\ advanceTimer = "none"
        /\ snapshot(hand, currentActionIndex, revealingStreet).communityCards
               = NextStreetCards(currentActionIndex)

\* the playback moves over a street change by one action, when the absorption
\* delay (set when the reveal delay elapsed) elapses
AdvanceAfterBothDelays ==
    (/\ ReplayShown /\ isPlaying /\ isPlaying'
     /\ NextOnNewStreet(currentActionIndex)
     /\ currentActionIndex' # currentActionIndex) =>
        /\ revealTimerRef = "absorb"
        /\ currentActionIndex' = currentActionIndex + 1

\* C16: during automatic playback, whenever the next voluntary action is on a
\* different street from the current one, the replay first enters a reveal
\* phase in which the new street's board cards are visible and the action index
\* is unchanged, and the index advances by exactly one only after the reveal
\* delay followed by the absorption delay have both elapsed.
C16_RevealBeforeStreetChange ==
    /\ [](InRevealPhase)
    /\ [][AdvanceAfterBothDelays]_vars

\* the board a stopped replay is to show at index idx
BoardAt(idx) ==
    IF idx >= totalVoluntaryActions(hand) - 1 THEN hand.communityCards
    ELSE Slice(hand.communityCards, STREET_CARD_COUNT(StreetAt(voluntaryActions(hand), idx)))

\* C17: whenever playback is not playing, the snapshot depends only on the
\* hand and currentActionIndex, whatever play, pause, step, jump and reset led
\* there: its community cards are the first STREET_CARD_COUNT[street of the
\* latest visible voluntary action] board cards (all known board cards at the
\* final index), never the cards of a street whose reveal was interrupted.
C17_StoppedSnapshotByIndex ==
    (ReplayShown /\ ~isPlaying) =>
        /\ snapshot(hand, currentActionIndex, revealingStreet)
               = snapshot(hand, currentActionIndex, "none")
        /\ snapshot(hand, currentActionIndex, revealingStreet).communityCards
               = BoardAt(currentActionIndex)

\* ================================================================ equity.ts
\* A card is <<rank, suit>>. A score is a JavaScript number of up to eleven
\* decimal digits; it is kept as [hi, lo] = hi * 100^4 + lo with lo < 100^4.
RECURSIVE Pow100(_)
Pow100(k) == IF k = 0 THEN 1 ELSE 100 * Pow100(k - 1)

Word == Pow100(4)

\* x * 100^k
Num(x, k) == IF k >= 4 THEN [hi |-> x * Pow100(k - 4), lo |-> 0] ELSE [hi |-> 0, lo |-> x * Pow100(k)]

Plus(a, b) ==
    [hi |-> a.hi + b.hi + ((a.lo + b.lo) \div Word), lo |-> (a.lo + b.lo) % Word]

HandRank ==
    [HIGH_CARD |-> 1, PAIR |-> 2, TWO_PAIR |-> 3, THREE_OF_A_KIND |-> 4, STRAIGHT |-> 5,
     FLUSH |-> 6, FULL_HOUSE |-> 7, FOUR_OF_A_KIND |-> 8, STRAIGHT_FLUSH |-> 9]

RANK_VALUES ==
    [r \in {"2", "3", "4", "5", "6", "7", "8", "9", "T", "J", "Q", "K", "A"} |->
        CASE r = "2" -> 2 [] r = "3" -> 3 [] r = "4" -> 4 [] r = "5" -> 5 [] r = "6" -> 6
          [] r = "7" -> 7 [] r = "8" -> 8 [] r = "9" -> 9 [] r = "T" -> 10 [] r = "J" -> 11
          [] r = "Q" -> 12 [] r = "K" -> 13 [] r = "A" -> 14]

getRankValue(rank) == RANK_VALUES[rank]

\* cards.map(getRankValue).sort((a, b) => b - a)
RECURSIVE SortedRanks(_)
SortedRanks(cards) ==
    IF cards = {} THEN <<>>
    ELSE LET c == CHOOSE x \in cards :
                      \A y \in cards : getRankValue(x[1]) >= getRankValue(y[1])
         IN  <<getRankValue(c[1])>> \o SortedRanks(cards \ {c})

\* a HandRank with the weight of one rank group in place of 10^10
CategoryScoreNarrow(handRank) == Num(handRank, 4)

\* HandRank * 1e10
CategoryScore(handRank) == Num(handRank, 5)

checkStraight(sortedRanks) ==
    LET isNormalStraight == /\ sortedRanks[1] - sortedRanks[5] = 4
                            /\ Cardinality(RangeOf(sortedRanks)) = 5
        isWheel == sortedRanks = <<14, 5, 4, 3, 2>>
    IN  isNormalStraight \/ isWheel

\* the top rank of the hand, the wheel's ace included
getStraightHighCardTop(sortedRanks) == sortedRanks[1]

getStraightHighCard(sortedRanks) ==
    IF sortedRanks[1] = 14 /\ sortedRanks[2] = 5 THEN 5 ELSE sortedRanks[1]

\* the for loop of encodeKickers
RECURSIVE encodeKickersFrom(_, _)
encodeKickersFrom(kickers, i) ==
    IF i < Len(kickers) /\ i < 5
    THEN Plus(Num(kickers[i + 1], 4 - i), encodeKickersFrom(kickers, i + 1))
    ELSE Num(0, 0)

encodeKickers(kickers) == encodeKickersFrom(kickers, 0)

\* Array.from(rankCounts.entries()).sort(count desc, then rank desc)
RECURSIVE SortedCounts(_)
SortedCounts(entries) ==
    IF entries = {} THEN <<>>
    ELSE LET e == CHOOSE x \in entries :
                      \A y \in entries : x[2] > y[2] \/ (x[2] = y[2] /\ x[1] >= y[1])
         IN  <<e>> \o SortedCounts(entries \ {e})

evaluate5Cards(cards) ==
    LET ranks   == SortedRanks(cards)
        isFlush == \A c \in cards : \A d \in cards : c[2] = d[2]
        isStraight == checkStraight(ranks)
        straightHighCard == IF isStraight THEN getStraightHighCard(ranks) ELSE 0
        counts  == SortedCounts({<<r, Cardinality({k \in 1..Len(ranks) : ranks[k] = r})>> :
                                    r \in RangeOf(ranks)})
        \* counts.slice(1).map(c => c[0])
        kickers == [i \in 1..(Len(counts) - 1) |-> counts[i + 1][1]]
    IN  IF isFlush /\ isStraight
        THEN Plus(CategoryScore(HandRank.STRAIGHT_FLUSH), Num(straightHighCard, 4))
        ELSE IF counts[1][2] = 4
        THEN Plus(Plus(CategoryScore(HandRank.FOUR_OF_A_KIND), Num(counts[1][1], 4)),
                  Num(counts[2][1], 3))
        ELSE IF counts[1][2] = 3 /\ counts[2][2] = 2
        THEN Plus(Plus(CategoryScore(HandRank.FULL_HOUSE), Num(counts[1][1], 4)),
                  Num(counts[2][1], 3))
        ELSE IF isFlush
        THEN Plus(CategoryScore(HandRank.FLUSH), encodeKickers(ranks))
        ELSE IF isStraight
        THEN Plus(CategoryScore(HandRank.STRAIGHT), Num(straightHighCard, 4))
        ELSE IF counts[1][2] = 3
        THEN Plus(Plus(CategoryScore(HandRank.THREE_OF_A_KIND), Num(counts[1][1], 4)),
                  encodeKickers(kickers))
        ELSE IF counts[1][2] = 2 /\ counts[2][2] = 2
        THEN Plus(Plus(Plus(CategoryScore(HandRank.TWO_PAIR),
                            Num(Max2(counts[1][1], counts[2][1]), 4)),
                       Num(Min2(counts[1][1], counts[2][1]), 3)),
                  Num(counts[3][1], 2))
        ELSE IF counts[1][2] = 2
        THEN Plus(Plus(CategoryScore(HandRank.PAIR), Num(counts[1][1], 4)),
                  encodeKickers(kickers))
        ELSE Plus(CategoryScore(HandRank.HIGH_CARD), encodeKickers(ranks))

\* a > b, a < b on scores
Greater(a, b) == a.hi > b.hi \/ (a.hi = b.hi /\ a.lo > b.lo)

\* equal scores reported as a win of the first hand
compareHandsNoTie(a, b) == IF Greater(b, a) THEN -1 ELSE 1

compareHands(a, b) == IF Greater(a, b) THEN 1 ELSE IF Greater(b, a) THEN -1 ELSE 0

\* ------------------------------------------------------------ evaluate7Cards
\* The nested loops of combinations5from7 over the 0-based indices of n cards:
\* the loop at depth d runs its index from one past the index before it while
\* it is below n - (4 - d).
RECURSIVE CombinationsFrom(_, _), CombinationsLoop(_, _, _)
CombinationsLoop(n, prefix, v) ==
    IF v < n - (4 - Len(prefix))
    THEN CombinationsFrom(n, Append(prefix, v)) \o CombinationsLoop(n, prefix, v + 1)
    ELSE <<>>

CombinationsFrom(n, prefix) ==
    IF Len(prefix) = 5 THEN <<prefix>>
    ELSE CombinationsLoop(n, prefix, IF prefix = <<>> THEN 0 ELSE prefix[Len(prefix)] + 1)

\* the index tuples the loops yield for seven cards
Combinations7 == CombinationsFrom(7, <<>>)

combinations5from7(cards) ==
    IF Len(cards) < 5 THEN <<>>
    ELSE LET idx == IF Len(cards) = 7 THEN Combinations7
                    ELSE CombinationsFrom(Len(cards), <<>>)
         IN  [k \in 1..Len(idx) |-> [p \in 1..5 |-> cards[idx[k][p] + 1]]]

\* the for loop of evaluate7Cards
RECURSIVE BestScoreFrom(_, _, _)
BestScoreFrom(combos, k, bestScore) ==
    IF k > Len(combos) THEN bestScore
    ELSE LET score == evaluate5Cards(RangeOf(combos[k]))
         IN  BestScoreFrom(combos, k + 1, IF Greater(score, bestScore) THEN score ELSE bestScore)

\* the score of the five cards dealt first
evaluate7CardsFirst(cards) == evaluate5Cards(RangeOf(SubSeq(cards, 1, 5)))

evaluate7Cards(cards) ==
    IF Len(cards) < 5 THEN "throws"
    ELSE IF Len(cards) = 5 THEN evaluate5Cards(RangeOf(cards))
    ELSE BestScoreFrom(combinations5from7(cards), 1, Num(0, 0))

\* ------------------------------------------------------------ the full deck
Suits == <<"s", "h", "d", "c">>

DeckRanks == <<"A", "K", "Q", "J", "T", "9", "8", "7", "6", "5", "4", "3", "2">>

\* the two nested for loops of createFullDeck over the given ranks
createFullDeck(ranks) ==
    [k \in 1..(Len(Suits) * Len(ranks)) |->
        <<ranks[((k - 1) % Len(ranks)) + 1], Suits[((k - 1) \div Len(ranks)) + 1]>>]

cardsEqual(a, b) == a[1] = b[1] /\ a[2] = b[2]

buildRemainingDeck(excludeCards) ==
    SelectSeq(fullDeck,
              LAMBDA card : ~\E k \in 1..Len(excludeCards) : cardsEqual(card, excludeCards[k]))

\* array[i] = array[j] with array[j] left as it was
SwapOverwrite(array, i, j) == [array EXCEPT ![i + 1] = array[j + 1]]

\* array[i] <-> array[j], 0-based
Swap(array, i, j) == [array EXCEPT ![i + 1] = array[j + 1], ![j + 1] = array[i + 1]]

\* the values Math.floor(Math.random() * (i + 1)) can take, for i = n-1 .. 1
RandomDraws(n) == {f \in [1..(n - 1) -> 0..(n - 1)] : \A i \in 1..(n - 1) : f[i] <= i}

RECURSIVE ShuffleLoop(_, _, _)
ShuffleLoop(array, i, random) ==
    IF i > 0 THEN ShuffleLoop(Swap(array, i, random[i]), i - 1, random) ELSE array

shuffleArray(array, random) == ShuffleLoop(array, Len(array) - 1, random)

\* Math.round(num / den * 100 * 10) / 10, kept in tenths of a percent
RoundedPercent(num, den) == (2000 * num + den) \div (2 * den)

Percent(p) == 10 * p

EquityResult(heroEquity, tieEquity, opponentCount, sims) ==
    [heroEquity |-> heroEquity, tieEquity |-> tieEquity,
     opponentCount |-> opponentCount, simulations |-> sims]

\* a call that returns before any loop; `entry` is the function that was called
Returned(entry, result) == [frame |-> [fn |-> "returned", entry |-> entry], equity |-> result]

\* the call reached through the function `entry`
Entered(entry, call) == [call EXCEPT !.frame.entry = entry]

\* ----------------------------------------------------------- calculateEquity
\* The call up to the simulation loop: the result it returns at once, or the
\* locals the loop starts from.
calculateEquity(hero, board, opponentCount, sims) ==
    LET knownCards        == hero \o board
        remainingDeck     == buildRemainingDeck(knownCards)
        boardCardsNeeded  == 5 - Len(board)
        totalCardsNeeded  == boardCardsNeeded + opponentCount * 2
    IN  IF opponentCount = 0
        THEN Returned("calculateEquity", EquityResult(Percent(100), 0, 0, 0))
        ELSE IF Len(remainingDeck) < totalCardsNeeded
        THEN Returned("calculateEquity", EquityResult(Percent(50), 0, opponentCount, 0))
        ELSE [frame |-> [fn |-> "calculateEquity", entry |-> "calculateEquity",
                         heroCards |-> hero,
                         communityCards |-> board, opponentCount |-> opponentCount,
                         simulations |-> sims, remainingDeck |-> remainingDeck,
                         sim |-> 0, heroWins |-> 0, ties |-> 0, shuffled |-> <<>>,
                         fullBoard |-> <<>>, opponentHands |-> <<>>,
                         heroScore |-> NotScored, oppScores |-> <<>>],
              equity |-> NotComputed]

\* the comparison with the opponent dealt last only
CompareWithLastOpponent(heroScore, oppScores, k, anyTie) ==
    LET comparison == compareHands(heroScore, oppScores[Len(oppScores)])
    IN  [heroBeatsAll |-> comparison >= 0, anyTie |-> comparison = 0]

\* the loop over opponentHands, which stops at the first opponent that wins
RECURSIVE CompareWithOpponents(_, _, _, _)
CompareWithOpponents(heroScore, oppScores, k, anyTie) ==
    IF k > Len(oppScores) THEN [heroBeatsAll |-> TRUE, anyTie |-> anyTie]
    ELSE LET comparison == compareHands(heroScore, oppScores[k])
         IN  IF comparison < 0 THEN [heroBeatsAll |-> FALSE, anyTie |-> anyTie]
             ELSE CompareWithOpponents(heroScore, oppScores, k + 1,
                                       anyTie \/ comparison = 0)

\* the deal of one pass of the simulation loop: the board is completed and
\* each opponent gets two cards, from the front of the shuffled deck
Deal(f) ==
    LET boardCardsNeeded == 5 - Len(f.communityCards)
    IN  [f EXCEPT !.fullBoard = f.communityCards \o SubSeq(f.shuffled, 1, boardCardsNeeded),
                  !.opponentHands = [k \in 1..f.opponentCount |->
                                        <<f.shuffled[boardCardsNeeded + 2 * k - 1],
                                          f.shuffled[boardCardsNeeded + 2 * k]>>],
                  !.shuffled = <<>>]

\* the rest of the pass: evaluate, compare, count
Trial(f) ==
    LET heroScore == evaluate7Cards(f.heroCards \o f.fullBoard)
        oppScores == [k \in 1..f.opponentCount |->
                         evaluate7Cards(f.opponentHands[k] \o f.fullBoard)]
        outcome   == CompareWithOpponents(heroScore, oppScores, 1, FALSE)
    IN  [f EXCEPT !.heroScore = heroScore, !.oppScores = oppScores,
                  !.heroWins = IF outcome.heroBeatsAll /\ ~outcome.anyTie THEN @ + 1 ELSE @,
                  !.ties = IF outcome.heroBeatsAll /\ outcome.anyTie THEN @ + 1 ELSE @,
                  !.sim = @ + 1, !.fullBoard = <<>>, !.opponentHands = <<>>]

\* ------------------------------------------------------ calculateExactEquity
\* the number of simulations of the fall back to calculateEquity (10000)
FallbackSimulations == simulations

calculateExactEquity(hero, board) ==
    IF Len(board) # 5
    THEN Entered("calculateExactEquity", calculateEquity(hero, board, 1, FallbackSimulations))
    ELSE [frame |-> [fn |-> "calculateExactEquity", entry |-> "calculateExactEquity",
                     heroCards |-> hero,
                     communityCards |-> board,
                     remainingDeck |-> buildRemainingDeck(hero \o board),
                     heroScore |-> evaluate7Cards(hero \o board),
                     wins |-> 0, ties |-> 0, total |-> 0, i |-> 0, j |-> 1,
                     oppHand |-> <<>>, oppScore |-> NotScored],
          equity |-> NotComputed]

\* the same with the inner loop left one card before the end of the deck
ExactPassShort(f) ==
    LET oppHand    == <<f.remainingDeck[f.i + 1], f.remainingDeck[f.j + 1]>>
        oppScore   == evaluate7Cards(oppHand \o f.communityCards)
        comparison == compareHands(f.heroScore, oppScore)
        lastJ      == f.j + 2 >= Len(f.remainingDeck)
    IN  [f EXCEPT !.oppHand = oppHand, !.oppScore = oppScore,
                  !.total = @ + 1,
                  !.wins = IF comparison > 0 THEN @ + 1 ELSE @,
                  !.ties = IF comparison = 0 THEN @ + 1 ELSE @,
                  !.i = IF lastJ THEN @ + 1 ELSE @,
                  !.j = IF lastJ THEN f.i + 2 ELSE @ + 1]

\* one pass of the inner loop, and the step of the loops to the next pair
ExactPass(f) ==
    LET oppHand    == <<f.remainingDeck[f.i + 1], f.remainingDeck[f.j + 1]>>
        oppScore   == evaluate7Cards(oppHand \o f.communityCards)
        comparison == compareHands(f.heroScore, oppScore)
        lastJ      == f.j + 1 >= Len(f.remainingDeck)
    IN  [f EXCEPT !.oppHand = oppHand, !.oppScore = oppScore,
                  !.total = @ + 1,
                  !.wins = IF comparison > 0 THEN @ + 1 ELSE @,
                  !.ties = IF comparison = 0 THEN @ + 1 ELSE @,
                  !.i = IF lastJ THEN @ + 1 ELSE @,
                  !.j = IF lastJ THEN f.i + 2 ELSE @ + 1]

\* ---------------------------------------------------------------- useEquity
\* the same without the early return for no opponents
useEquityUnguarded(hero, board, opponents, sims) ==
    IF hero[1] = NoCard \/ hero[2] = NoCard
    THEN Returned("useEquity", NullEquity)
    ELSE IF Len(board) = 5 THEN Entered("useEquity", calculateExactEquity(hero, board))
    ELSE Entered("useEquity", calculateEquity(hero, board, opponents, sims))

\* the useMemo callback of `equity`, with `enabled` left at its default
useEquity(hero, board, opponents, sims) ==
    IF hero[1] = NoCard \/ hero[2] = NoCard
    THEN Returned("useEquity", NullEquity)
    ELSE IF opponents = 0
    THEN Returned("useEquity", EquityResult(Percent(100), 0, 0, 0))
    ELSE IF Len(board) = 5 THEN Entered("useEquity", calculateExactEquity(hero, board))
    ELSE Entered("useEquity", calculateEquity(hero, board, opponents, sims))

\* --------------------------------------------- the calculation step by step
Idle == frame = NoFrame /\ equity = NotComputed

Begin(call) ==
    /\ frame' = call.frame
    /\ equity' = call.equity
    /\ UNCHANGED <<fullDeck, heroCards, communityCards, activeOpponents, simulations,
                   cardsA, cardsB, scoreA, scoreB, handVars, replayVars>>

Continue(f) ==
    /\ frame' = f
    /\ UNCHANGED <<equity, fullDeck, heroCards, communityCards, activeOpponents,
                   simulations, cardsA, cardsB, scoreA, scoreB, handVars, replayVars>>

Return(result) ==
    /\ equity' = result
    /\ frame' = [frame EXCEPT !.fn = "returned"]
    /\ UNCHANGED <<fullDeck, heroCards, communityCards, activeOpponents, simulations,
                   cardsA, cardsB, scoreA, scoreB, handVars, replayVars>>

\* ReplayView renders with a snapshot
UseEquity ==
    /\ Idle
    /\ Begin(useEquity(heroCards, communityCards, activeOpponents, simulations))

\* a direct call of calculateEquity with two hero cards
CalculateEquity ==
    /\ Idle
    /\ heroCards[1] # NoCard /\ heroCards[2] # NoCard
    /\ Begin(calculateEquity(heroCards, communityCards, activeOpponents, simulations))

\* a direct call of calculateExactEquity with two hero cards; it takes no
\* opponent count
CalculateExactEquity ==
    /\ Idle
    /\ activeOpponents = 1
    /\ heroCards[1] # NoCard /\ heroCards[2] # NoCard
    /\ Begin(calculateExactEquity(heroCards, communityCards))

\* shuffleArray([...remainingDeck]) at the head of the simulation loop
Shuffle ==
    /\ frame.fn = "calculateEquity"
    /\ frame.sim < frame.simulations
    /\ frame.shuffled = <<>> /\ frame.fullBoard = <<>>
    /\ \E random \in RandomDraws(Len(frame.remainingDeck)) :
           Continue([frame EXCEPT !.shuffled = shuffleArray(frame.remainingDeck, random),
                                  !.heroScore = NotScored, !.oppScores = <<>>])

DealCards ==
    /\ frame.fn = "calculateEquity"
    /\ frame.shuffled # <<>>
    /\ Continue(Deal(frame))

CompareWithAll ==
    /\ frame.fn = "calculateEquity"
    /\ frame.fullBoard # <<>>
    /\ Continue(Trial(frame))

ReturnEquity ==
    /\ frame.fn = "calculateEquity"
    /\ frame.sim >= frame.simulations
    /\ Return(EquityResult(RoundedPercent(frame.heroWins, frame.simulations),
                           RoundedPercent(frame.ties, frame.simulations),
                           frame.opponentCount, frame.simulations))

EnumerateOpponentHand ==
    /\ frame.fn = "calculateExactEquity"
    /\ frame.i < Len(frame.remainingDeck) - 1
    /\ Continue(ExactPass(frame))

ReturnExactEquity ==
    /\ frame.fn = "calculateExactEquity"
    /\ frame.i >= Len(frame.remainingDeck) - 1
    /\ frame.total > 0
    /\ Return(EquityResult(RoundedPercent(frame.wins, frame.total),
                           RoundedPercent(frame.ties, frame.total), 1, frame.total))

\* ------------------------------------------------ exact-mode specification
HandState0 ==
    /\ hand = NoHand
    /\ currentStreet = "preflop"
    /\ activePlayerIndex = 0
    /\ isHandComplete = FALSE
    /\ isAllInShowdown = FALSE
    /\ isManualEnd = FALSE
    /\ timers = <<>>
    /\ view = "setup"
    /\ pickingBoard = "none"
    /\ boardCardsSelected = <<>>
    /\ prevStreetRef = "preflop"
    /\ mode = "normal"

\* the hero hands and the complete boards the enumeration is run on
ExactHeroCards == {<<<<"A", "s">>, <<"K", "s">>>>, <<<<"7", "h">>, <<"2", "d">>>>}

ExactBoards ==
    {<<<<"Q", "s">>, <<"J", "s">>, <<"T", "s">>, <<"2", "c">>, <<"2", "h">>>>,
     <<<<"9", "h">>, <<"8", "h">>, <<"6", "h">>, <<"5", "h">>, <<"3", "c">>>>}

MaxOpponents == 3       \* activeOpponents is drawn from 0..MaxOpponents

MaxSimulations == 2     \* simulations is drawn from 1..MaxSimulations

InitExact ==
    /\ HandState0
    /\ ReplayUnmounted
    /\ cardsA = {} /\ cardsB = {}
    /\ scoreA = NotScored /\ scoreB = NotScored
    /\ fullDeck = createFullDeck(DeckRanks)
    /\ heroCards \in ExactHeroCards
    /\ communityCards \in ExactBoards
    /\ activeOpponents \in 0..1
    /\ simulations = 1
    /\ frame = NoFrame
    /\ equity = NotComputed

NextExact ==
    \/ UseEquity
    \/ CalculateExactEquity
    \/ EnumerateOpponentHand
    \/ ReturnExactEquity

SpecExact == InitExact /\ [][NextExact]_vars

\* ---------------------------------------------- Monte Carlo specification
\* The simulation deals from the cards of three ranks, so that every shuffle
\* of the remaining deck can be followed.
TrialRanks == <<"A", "K", "Q">>

TrialHeroCards ==
    {<<<<"A", "s">>, <<"K", "s">>>>, <<<<"Q", "h">>, NoCard>>}

TrialBoards ==
    {<<<<"A", "h">>, <<"K", "h">>, <<"Q", "s">>, <<"Q", "c">>>>,
     <<<<"A", "h">>, <<"K", "h">>, <<"Q", "s">>, <<"Q", "c">>, <<"A", "d">>>>}

InitMonteCarlo ==
    /\ HandState0
    /\ ReplayUnmounted
    /\ cardsA = {} /\ cardsB = {}
    /\ scoreA = NotScored /\ scoreB = NotScored
    /\ fullDeck = createFullDeck(TrialRanks)
    /\ heroCards \in TrialHeroCards
    /\ communityCards \in TrialBoards
    /\ activeOpponents \in 0..MaxOpponents
    /\ simulations \in 1..MaxSimulations
    /\ frame = NoFrame
    /\ equity = NotComputed

NextMonteCarlo ==
    \/ UseEquity
    \/ CalculateEquity
    \/ CalculateExactEquity
    \/ Shuffle
    \/ DealCards
    \/ CompareWithAll
    \/ ReturnEquity
    \/ EnumerateOpponentHand
    \/ ReturnExactEquity

SpecMonteCarlo == InitMonteCarlo /\ [][NextMonteCarlo]_vars

\* -------------------------------------------------- evaluator specification
\* The cards the two hands are drawn from: seven spades from the ace to the
\* seven, the deuce in every suit and the three of hearts.
EquityDeck ==
    {<<r, "s">> : r \in {"A", "2", "3", "4", "5", "6", "7"}}
        \cup {<<"2", "h">>, <<"3", "h">>, <<"2", "d">>, <<"2", "c">>}

Hands5 == {h \in SUBSET EquityDeck : Cardinality(h) = 5}

InitEquity ==
    /\ hand = NoHand
    /\ currentStreet = "preflop"
    /\ activePlayerIndex = 0
    /\ isHandComplete = FALSE
    /\ isAllInShowdown = FALSE
    /\ isManualEnd = FALSE
    /\ timers = <<>>
    /\ view = "setup"
    /\ pickingBoard = "none"
    /\ boardCardsSelected = <<>>
    /\ prevStreetRef = "preflop"
    /\ mode = "normal"
    /\ ReplayUnmounted
    /\ cardsA \in Hands5 /\ cardsB \in Hands5
    /\ scoreA = NotScored /\ scoreB = NotScored
    /\ CalcIdle

Evaluate ==
    /\ scoreA = NotScored
    /\ scoreA' = evaluate5Cards(cardsA)
    /\ scoreB' = evaluate5Cards(cardsB)
    /\ UNCHANGED <<cardsA, cardsB, handVars, replayVars, calcVars>>

NextEquity == Evaluate

SpecEquity == InitEquity /\ [][NextEquity]_vars

\* The wheel and its neighbours: five spades from the ace to the five, two more
\* deuces and a second three, the six, the seven, the king and the queen.
WheelDeck ==
    {<<r, "s">> : r \in {"A", "2", "3", "4", "5"}}
        \cup {<<"2", "h">>, <<"2", "d">>, <<"3", "h">>, <<"6", "d">>, <<"7", "h">>,
              <<"K", "h">>, <<"Q", "d">>}

\* the first hand holds an ace and a deuce, the second is any hand
InitWheel ==
    /\ hand = NoHand
    /\ currentStreet = "preflop"
    /\ activePlayerIndex = 0
    /\ isHandComplete = FALSE
    /\ isAllInShowdown = FALSE
    /\ isManualEnd = FALSE
    /\ timers = <<>>
    /\ view = "setup"
    /\ pickingBoard = "none"
    /\ boardCardsSelected = <<>>
    /\ prevStreetRef = "preflop"
    /\ mode = "normal"
    /\ ReplayUnmounted
    /\ cardsA \in {h \in SUBSET WheelDeck :
                      /\ Cardinality(h) = 5
                      /\ \E c \in h : c[1] = "A"
                      /\ \E c \in h : c[1] = "2"}
    /\ cardsB \in {h \in SUBSET WheelDeck : Cardinality(h) = 5}
    /\ scoreA = NotScored /\ scoreB = NotScored
    /\ CalcIdle

SpecWheel == InitWheel /\ [][NextEquity]_vars

\* =========================================================== equity claims
Scored == scoreA # NotScored /\ scoreB # NotScored

RanksIn(cards) == {getRankValue(c[1]) : c \in cards}

CountOf(cards, r) == Cardinality({c \in cards : getRankValue(c[1]) = r})

SameSuit(cards) == \A c \in cards : \A d \in cards : c[2] = d[2]

Consecutive(cards) ==
    /\ Cardinality(RanksIn(cards)) = 5
    /\ \/ MaxOf(RanksIn(cards)) - (CHOOSE r \in RanksIn(cards) : \A q \in RanksIn(cards) : r <= q) = 4
       \/ RanksIn(cards) = {14, 2, 3, 4, 5}

GroupsOf(cards, n) == {r \in RanksIn(cards) : CountOf(cards, r) = n}

\* the poker category of a hand, from 1 (high card) to 9 (straight flush)
Category(cards) ==
    IF SameSuit(cards) /\ Consecutive(cards) THEN 9
    ELSE IF GroupsOf(cards, 4) # {} THEN 8
    ELSE IF GroupsOf(cards, 3) # {} /\ GroupsOf(cards, 2) # {} THEN 7
    ELSE IF SameSuit(cards) THEN 6
    ELSE IF Consecutive(cards) THEN 5
    ELSE IF GroupsOf(cards, 3) # {} THEN 4
    ELSE IF Cardinality(GroupsOf(cards, 2)) = 2 THEN 3
    ELSE IF GroupsOf(cards, 2) # {} THEN 2
    ELSE 1

\* the ranks of a set in descending order
RECURSIVE Descending(_)
Descending(ranks) ==
    IF ranks = {} THEN <<>> ELSE <<MaxOf(ranks)>> \o Descending(ranks \ {MaxOf(ranks)})

\* what decides between two hands of one category: the top card of a straight
\* (5 for the wheel), else the rank groups from the largest group down, each
\* size in descending rank
TieBreak(cards) ==
    IF Consecutive(cards)
    THEN <<IF RanksIn(cards) = {14, 2, 3, 4, 5} THEN 5 ELSE MaxOf(RanksIn(cards))>>
    ELSE Descending(GroupsOf(cards, 4)) \o Descending(GroupsOf(cards, 3))
         \o Descending(GroupsOf(cards, 2)) \o Descending(GroupsOf(cards, 1))

LexGreater(k1, k2) ==
    \E i \in 1..Min2(Len(k1), Len(k2)) :
        k1[i] > k2[i] /\ \A j \in 1..(i - 1) : k1[j] = k2[j]

\* C18: for every pair of 5-card hands, a hand of a higher category scores
\* strictly higher than a hand of a lower category (straight flush > four of a
\* kind > full house > flush > straight > three of a kind > two pair > pair >
\* high card), whatever the ranks and kickers.
C18_CategoryOrder ==
    (Scored /\ Category(cardsA) > Category(cardsB)) => compareHands(scoreA, scoreB) = 1

\* the hand of the higher category holds the lower cards
C18_HigherCategoryLowerCards ==
    /\ Scored
    /\ Category(cardsA) > Category(cardsB)
    /\ MaxOf(RanksIn(cardsA)) < MaxOf(RanksIn(cardsB))
    /\ compareHands(scoreA, scoreB) = 1

\* C19: of two 5-card hands of the same category, the one that wins under
\* standard tie-breaking (primary rank group, then secondary group, then
\* kickers in descending order) scores strictly higher; a higher pair or three
\* of a kind outscores a lower one whatever the kickers.
C19_TieBreakOrder ==
    (/\ Scored
     /\ Category(cardsA) = Category(cardsB)
     /\ LexGreater(TieBreak(cardsA), TieBreak(cardsB))) =>
        compareHands(scoreA, scoreB) = 1

\* C20: two 5-card hands score the same if and only if they have the same
\* category and the same ranks; hands that differ in a rank never tie.
C20_TieIffSameRanks ==
    Scored =>
        (compareHands(scoreA, scoreB) = 0
            <=> /\ Category(cardsA) = Category(cardsB)
                /\ \A r \in RanksIn(cardsA) \cup RanksIn(cardsB) :
                       CountOf(cardsA, r) = CountOf(cardsB, r))

\* --------------------------------------------------------------- the wheel
IsWheel(cards) == RanksIn(cards) = {14, 2, 3, 4, 5}

\* the category a score was given: Math.floor(score / 1e10)
ScoreCategory(score) == score.hi \div 100

\* C21: A-2-3-4-5 in mixed suits evaluates as a straight whose high card is 5:
\* it scores strictly below every 6-high and higher straight and strictly above
\* every three of a kind; no other hand that holds an ace and a deuce is scored
\* as a straight or straight flush.
C21_WheelIsFiveHigh ==
    Scored =>
        /\ (IsWheel(cardsA) /\ ~SameSuit(cardsA)) =>
               /\ scoreA = Plus(CategoryScore(HandRank.STRAIGHT), Num(5, 4))
               /\ (Category(cardsB) = 5 /\ ~IsWheel(cardsB)) =>
                      compareHands(scoreA, scoreB) = -1
               /\ Category(cardsB) = 4 => compareHands(scoreA, scoreB) = 1
        /\ ({14, 2} \subseteq RanksIn(cardsA) /\ ~IsWheel(cardsA)) =>
               ScoreCategory(scoreA) \notin {HandRank.STRAIGHT, HandRank.STRAIGHT_FLUSH}

\* a mixed-suit wheel has met a six-high straight
C21_WheelMetSixHigh ==
    /\ Scored
    /\ IsWheel(cardsA) /\ ~SameSuit(cardsA)
    /\ Category(cardsB) = 5 /\ MaxOf(RanksIn(cardsB)) = 6
    /\ compareHands(scoreA, scoreB) = -1

\* ------------------------------------------------------- best five of seven
Subsets5(cards) == {c \in SUBSET RangeOf(cards) : Cardinality(c) = 5}

\* the subsets the generator yields, in the order it yields them
Visited(cards) ==
    LET combos == combinations5from7(cards)
    IN  [k \in 1..Len(combos) |-> RangeOf(combos[k])]

BestOfSubsets(cards, score) ==
    \A scores \in {[c \in Subsets5(cards) |-> evaluate5Cards(c)]} :
        /\ \A c \in DOMAIN scores : ~Greater(scores[c], score)
        /\ \E c \in DOMAIN scores : scores[c] = score

\* the seven cards of the opponent hand enumerated last
OpponentSeven == frame.oppHand \o frame.communityCards

\* C22: for 7 distinct cards, evaluate7Cards visits each of the 21 five-card
\* subsets exactly once and returns the maximum evaluate5Cards score over
\* them, so its result is at least the score of every 5-card subset.
C22_BestOfTwentyOne ==
    (frame.fn = "calculateExactEquity" /\ frame.total > 0) =>
        LET visited == Visited(OpponentSeven)
        IN  /\ Cardinality(RangeOf(OpponentSeven)) = 7
            /\ Len(visited) = 21
            /\ RangeOf(visited) = Subsets5(OpponentSeven)
            /\ \A k \in 1..21 : \A l \in 1..21 : visited[k] = visited[l] => k = l
            /\ BestOfSubsets(OpponentSeven, frame.oppScore)
            /\ frame.total = 1 =>
                   BestOfSubsets(frame.heroCards \o frame.communityCards, frame.heroScore)

\* the best five cards are not the five dealt first
C22_BestIsNotFirstFive ==
    /\ frame.fn = "calculateExactEquity" /\ frame.total > 0
    /\ BestOfSubsets(OpponentSeven, frame.oppScore)
    /\ Greater(frame.oppScore, evaluate5Cards(RangeOf(SubSeq(OpponentSeven, 1, 5))))

\* ------------------------------------------------------ Monte Carlo trials
\* the step is one pass of the simulation loop
TrialCounted ==
    /\ frame.fn = "calculateEquity" /\ frame'.fn = "calculateEquity"
    /\ frame'.sim = frame.sim + 1

\* the 7-card scores of the cards dealt: the hero's, then each opponent's
TrialScores(f) ==
    [k \in 0..f.opponentCount |->
        IF k = 0 THEN evaluate7Cards(f.heroCards \o f.fullBoard)
        ELSE evaluate7Cards(f.opponentHands[k] \o f.fullBoard)]

HeroBeatsEvery(scores) ==
    \A k \in DOMAIN scores \ {0} : Greater(scores[0], scores[k])

HeroLosesToNone(scores) ==
    \A k \in DOMAIN scores \ {0} : ~Greater(scores[k], scores[0])

HeroEqualsSome(scores) ==
    \E k \in DOMAIN scores \ {0} : scores[k] = scores[0]

TrialClassified ==
    TrialCounted =>
        \A scores \in {TrialScores(frame)} :
            /\ frame'.heroWins - frame.heroWins = (IF HeroBeatsEvery(scores) THEN 1 ELSE 0)
            /\ frame'.ties - frame.ties =
                   (IF HeroLosesToNone(scores) /\ HeroEqualsSome(scores) THEN 1 ELSE 0)

CountsWithinTrials ==
    "sim" \in DOMAIN frame =>
        /\ frame.heroWins + frame.ties <= frame.sim
        /\ frame.sim <= frame.simulations

\* C23: in each Monte Carlo trial the hero is counted as a win exactly when the
\* hero's 7-card score is strictly greater than every opponent's, as a tie
\* exactly when the hero loses to no opponent and equals at least one, and
\* otherwise as neither; hence wins + ties <= simulations.
C23_TrialClassification == [](CountsWithinTrials) /\ [][TrialClassified]_vars

\* a trial among two opponents that the hero did not lose, demoted to a tie by
\* one of them while the other is beaten
C23_DemotedToTie ==
    /\ frame.fn = "calculateEquity" /\ frame.sim = 1 /\ frame.opponentCount = 2
    /\ frame.ties = 1 /\ frame.heroWins = 0
    /\ \E k \in 1..2 : Greater(frame.heroScore, frame.oppScores[k])

\* ------------------------------------------------------------ dealt cards
RECURSIVE Flatten(_)
Flatten(hands) == IF hands = <<>> THEN <<>> ELSE Head(hands) \o Flatten(Tail(hands))

DuplicateFree(cards) == Cardinality(RangeOf(cards)) = Len(cards)

\* a trial's cards have been dealt and not yet compared
Dealt == frame.fn = "calculateEquity" /\ frame.fullBoard # <<>>

\* C24: given duplicate-free hero and board cards, in every simulation trial
\* the hero's hole cards, the completed 5-card board and every opponent's two
\* hole cards hold no card twice, and no dealt card equals a known card.
C24_DealIsDuplicateFree ==
    (Dealt /\ DuplicateFree(frame.heroCards \o frame.communityCards)) =>
        /\ Len(frame.fullBoard) = 5
        /\ Len(frame.opponentHands) = frame.opponentCount
        /\ DuplicateFree(frame.heroCards \o frame.fullBoard \o Flatten(frame.opponentHands))
        /\ RangeOf(SubSeq(frame.fullBoard, Len(frame.communityCards) + 1, 5)
                        \o Flatten(frame.opponentHands))
               \cap RangeOf(frame.heroCards \o frame.communityCards) = {}

\* the second trial has dealt a board card and four opponent cards
C24_SecondDealForTwo ==
    /\ Dealt
    /\ frame.sim = 1 /\ frame.opponentCount = 2 /\ Len(frame.communityCards) = 4
    /\ DuplicateFree(frame.heroCards \o frame.fullBoard \o Flatten(frame.opponentHands))

\* -------------------------------------------------------- exact enumeration
\* the frame is calculateExactEquity's, running or returned
InExact == "total" \in DOMAIN frame

\* the pairs a < b of 0-based deck indices that come before (i, j)
PairsBefore(i, j, n) == (i * (2 * n - i - 1)) \div 2 + (j - i - 1)

\* the pair of indices enumerated just before the loops stood at (i, j)
PairBefore(i, j, n) == IF j > i + 1 THEN <<i, j - 1>> ELSE <<i - 1, n - 1>>

IndexPairs(n) == {p \in (0..(n - 1)) \X (0..(n - 1)) : p[1] < p[2]}

\* the cards of the deck that are neither the hero's nor on the board
UnknownCards == RangeOf(fullDeck) \ RangeOf(frame.heroCards \o frame.communityCards)

\* the comparison of the hero with every pair of unknown cards, by index pair
Comparisons ==
    CHOOSE c \in {[p \in IndexPairs(Len(frame.remainingDeck)) |->
                      compareHands(heroScore,
                                   evaluate7Cards(<<frame.remainingDeck[p[1] + 1],
                                                    frame.remainingDeck[p[2] + 1]>>
                                                      \o frame.communityCards))] :
                     heroScore \in {evaluate7Cards(frame.heroCards \o frame.communityCards)}} :
        TRUE

EnumerationInOrder ==
    \A n \in {Len(frame.remainingDeck)} :
        /\ DuplicateFree(frame.remainingDeck)
        /\ RangeOf(frame.remainingDeck) = UnknownCards
        /\ frame.i < n - 1 => (frame.i < frame.j /\ frame.j < n)
        /\ frame.total = PairsBefore(frame.i, frame.j, n)
        /\ frame.total > 0 =>
               \A p \in {PairBefore(frame.i, frame.j, n)} :
                   frame.oppHand = <<frame.remainingDeck[p[1] + 1],
                                     frame.remainingDeck[p[2] + 1]>>

ResultIsTheCount(pairs) ==
    \A c \in {Comparisons} :
        /\ frame.total = pairs
        /\ Cardinality(DOMAIN c) = pairs
        /\ equity = EquityResult(
                        RoundedPercent(Cardinality({p \in DOMAIN c : c[p] > 0}), pairs),
                        RoundedPercent(Cardinality({p \in DOMAIN c : c[p] = 0}), pairs),
                        1, pairs)

\* C25 as amended: with a complete 5-card board, calculateExactEquity
\* enumerates every unordered pair of the 45 cards that are neither the hero's
\* nor on the board exactly once and in index order, with no sampling,
\* C(45,2) = 990 opponent hole-card pairs in total (reported as the simulation
\* count), and its result is the count over these pairs, the same for the
\* same inputs.
C25_EnumeratesAllPairsOfFortyFive ==
    InExact =>
        /\ EnumerationInOrder
        /\ frame.fn = "returned" => ResultIsTheCount((45 * 44) \div 2)

\* the enumeration of a 52-card deck has returned
C25_ExactReturned ==
    /\ InExact /\ frame.fn = "returned"
    /\ Len(fullDeck) = 52
    /\ equity.simulations = frame.total
    /\ frame.wins > 0 /\ frame.ties > 0 /\ frame.wins + frame.ties < frame.total

\* C25: with a complete 5-card board, calculateExactEquity enumerates every
\* unordered pair of remaining-deck cards exactly once with no sampling,
\* C(47,2) opponent hole-card pairs in total (reported as the simulation
\* count), and returns the same result for the same inputs.
C25_EnumeratesAllPairsOfFortySeven ==
    InExact =>
        /\ EnumerationInOrder
        /\ frame.fn = "returned" => ResultIsTheCount((47 * 46) \div 2)

\* ------------------------------------------------------ useEquity's choice
\* the calculation was asked for by useEquity
ByUseEquity == "entry" \in DOMAIN frame /\ frame.entry = "useEquity"

HasResult == equity # NotComputed /\ equity # NullEquity

\* C26: useEquity runs the exact enumeration only when the board has 5 cards
\* and there is a single live opponent; in every other case the equity is
\* computed against all live opponents, so the result's opponentCount always
\* equals the number of non-folded non-hero players of the snapshot.
C26_ExactOnlyForOneOpponent ==
    ByUseEquity =>
        /\ "total" \in DOMAIN frame => (Len(communityCards) = 5 /\ activeOpponents = 1)
        /\ "sim" \in DOMAIN frame => frame.opponentCount = activeOpponents
        /\ HasResult => equity.opponentCount = activeOpponents

\* ------------------------------------------------------------ exact shares
\* the step is one pass of the enumeration
PairCounted ==
    /\ frame.fn = "calculateExactEquity" /\ frame'.fn = "calculateExactEquity"
    /\ frame'.total = frame.total + 1

\* the opponent hands the hero lost to
OpponentWins(f) == f.total - f.wins - f.ties

\* each pass adds the hand to exactly one of hero wins, ties and opponent wins,
\* by the 7-card scores of the two hands
CountedOnce ==
    PairCounted =>
        \A scores \in {<<evaluate7Cards(frame.heroCards \o frame.communityCards),
                          evaluate7Cards(frame'.oppHand \o frame.communityCards)>>} :
            /\ frame'.wins - frame.wins = (IF Greater(scores[1], scores[2]) THEN 1 ELSE 0)
            /\ frame'.ties - frame.ties = (IF scores[1] = scores[2] THEN 1 ELSE 0)
            /\ OpponentWins(frame') - OpponentWins(frame)
                   = (IF Greater(scores[2], scores[1]) THEN 1 ELSE 0)

\* the three shares, each rounded to one decimal, add up to 100% within 0.1
SharesAddUp ==
    (InExact /\ frame.fn = "returned") =>
        /\ equity.heroEquity = RoundedPercent(frame.wins, frame.total)
        /\ equity.tieEquity = RoundedPercent(frame.ties, frame.total)
        /\ OpponentWins(frame) >= 0
        /\ equity.heroEquity + equity.tieEquity
               + RoundedPercent(OpponentWins(frame), frame.total) \in 999..1001

\* C27: in exact mode (5 board cards, one opponent) every enumerated opponent
\* hand is counted as exactly one of hero win, tie or opponent win, so the
\* hero's share plus the opponent's share plus the tie share of the enumerated
\* hands is 100% up to one-decimal rounding.
C27_SharesSumToHundred == [](SharesAddUp) /\ [][CountedOnce]_vars

\* an enumeration asked for by useEquity has returned with wins, ties and losses
C27_AllThreeOutcomes ==
    /\ InExact /\ frame.fn = "returned" /\ ByUseEquity
    /\ Len(communityCards) = 5 /\ activeOpponents = 1
    /\ frame.wins > 0 /\ frame.ties > 0 /\ OpponentWins(frame) > 0
    /\ equity.heroEquity + equity.tieEquity
           + RoundedPercent(OpponentWins(frame), frame.total) \in 999..1001

\* ------------------------------------------------------------ no opponents
\* useEquity or calculateEquity was called with no live opponent and two hero cards
CalledWithNoOpponent ==
    /\ "entry" \in DOMAIN frame
    /\ frame.entry \in {"useEquity", "calculateEquity"}
    /\ activeOpponents = 0
    /\ heroCards[1] # NoCard /\ heroCards[2] # NoCard

\* C28: with zero live opponents the equity result is exactly heroEquity 100,
\* tieEquity 0, opponentCount 0 and 0 simulations, for any two hero cards and
\* any board, and no simulation or enumeration is run.
C28_NoOpponentIsHundred ==
    CalledWithNoOpponent =>
        /\ frame.fn = "returned"
        /\ "sim" \notin DOMAIN frame /\ "total" \notin DOMAIN frame
        /\ equity = [heroEquity |-> 1000, tieEquity |-> 0, opponentCount |-> 0,
                     simulations |-> 0]

\* useEquity has answered for a complete board with no opponent left
C28_RiverWithNoOpponent ==
    /\ CalledWithNoOpponent /\ frame.entry = "useEquity"
    /\ Len(communityCards) = 5
    /\ equity.heroEquity = 1000 /\ equity.simulations = 0

\* ------------------------------------------------------------ the hero seat
Heroes(players) == {i \in 1..Len(players) : players[i].isHero}

PositionsDistinct(players) ==
    \A i, j \in 1..Len(players) : i # j => players[i].position # players[j].position

\* C29: after initHand with any setup configuration exactly one player has
\* isHero = true, that player sits at seat index 0 and that player's position
\* equals hand.heroPosition; all positions of the hand are pairwise distinct.
C29_HeroSeat ==
    hand # NoHand =>
        /\ Heroes(hand.players) = {1}
        /\ PlayerAt(hand.players, 0).position = hand.heroPosition
        /\ PositionsDistinct(hand.players)

\* ------------------------------------------------------------ a worked hand
\* SetupForm's initial table: six players with 100 chips each
DefaultPlayers == 6

DefaultStack == 100

\* calculatePotAtPoint of equity.ts: the amounts up to actions[upToIndex]
\* of every action that is neither a fold nor a check
calculatePotAtPoint(actions, upToIndex) ==
    SumAmounts(SubSeq(actions, 1, Min2(upToIndex + 1, Len(actions))),
               ActionTypes \ {"fold", "check"})

StreetLog(actions, street) == SelectSeq(actions, LAMBDA a : a.street = street)

\* 6-max, blinds 1/2, hero on the button
WorkedConfigs ==
    [sb : {DefaultSB}, bb : {DefaultBB}, playerCount : {DefaultPlayers},
     heroPosition : {"BTN"},
     heroStack : {DefaultStack, 2 * DefaultStack, 3 * DefaultStack}]

\* flop: check, bet 22, call; turn: check, bet 55, fold
WorkedPostflop ==
    [flop |-> <<(<<"check", 0>>), (<<"bet", 22>>), (<<"call", 22>>)>>,
     turn |-> <<(<<"check", 0>>), (<<"bet", 55>>), (<<"fold", 0>>)>>]

\* What is entered next, as <<street, type, amount>>. Preflop the players
\* before the hero fold but for one who opens to 6, the hero makes it 18, the
\* blinds fold and the opener calls 12; after the flop the actions of
\* WorkedPostflop are entered in their order, each on its street.
WorkedSteps(s) ==
    LET acts   == s.hand.actions
        raises == SelectSeq(acts, LAMBDA a : a.type = "raise")
        called == \E i \in 1..Len(acts) : acts[i].type = "call"
        flop   == Len(StreetLog(acts, "flop"))
        turn   == Len(StreetLog(acts, "turn"))
        actor  == PlayerAt(s.hand.players, s.activePlayerIndex)
    IN  IF ~called
        THEN IF Len(raises) = 0
             THEN {<<"preflop", "raise", 6>>}
                  \cup (IF actor.position # "CO" THEN {<<"preflop", "fold", 0>>} ELSE {})
             ELSE IF Len(raises) = 1
             THEN IF actor.isHero THEN {<<"preflop", "raise", 18>>}
                  ELSE {<<"preflop", "fold", 0>>}
             ELSE IF actor.position = raises[1].playerPosition
                  THEN {<<"preflop", "call", 12>>}
                  ELSE {<<"preflop", "fold", 0>>}
        ELSE IF flop < 3 THEN {<<"flop">> \o WorkedPostflop.flop[flop + 1]}
        ELSE IF turn < 3 THEN {<<"turn">> \o WorkedPostflop.turn[turn + 1]}
        ELSE {}

\* the next action of the hand is entered once its street has begun
EnterAction ==
    /\ hand # NoHand
    /\ \E step \in WorkedSteps(S) :
          /\ step[1] = currentStreet
          /\ Commit(addAction(S, step[2], step[3]))

NextWorked ==
    \/ \E config \in WorkedConfigs : InitHand(config)
    \/ EnterAction
    \/ \E i \in 1..MaxTimers : FireTimer(i)

SpecWorked == Init /\ [][NextWorked]_vars

\* the last action of the worked hand is in the log
WorkedHandEntered == hand # NoHand /\ Len(StreetLog(hand.actions, "turn")) = 3

\* C30: the worked hand (6 players, blinds 1/2, hero on the button; preflop an
\* open-raise, the hero's re-raise and a call; flop check, bet, call; turn
\* check, bet, fold), entered through initHand and addAction, is complete
\* exactly at the turn fold, with the hero the only player who has not folded
\* and the final pot equal to the sum of the amounts in the log.
C30_WorkedHand ==
    /\ isHandComplete <=> WorkedHandEntered
    /\ WorkedHandEntered =>
          /\ hand.actions[Len(hand.actions)].type = "fold"
          /\ ActivePlayers(hand.players) = Heroes(hand.players)
          /\ calculatePotAtPoint(hand.actions, Len(hand.actions) - 1)
                = SumAmounts(hand.actions, ActionTypes)

\* ------------------------------------------------------ useVideoExport.ts
\* The snapshot computeAllSnapshots pushes for actionIndex: the blinds and the
\* initial stacks are found as in useReplay, the street and the board come
\* from the last visible voluntary action alone.
exportSnapshot(h, actionIndex) ==
    LET blinds  == BlindScan(h.actions, 1, <<>>)
        vol     == SubSeq(h.actions, Len(blinds) + 1, Len(h.actions))
        visVol  == IF actionIndex >= 0 THEN Slice(vol, actionIndex + 1) ELSE <<>>
        visible == blinds \o visVol
        street  == IF visVol # <<>> THEN visVol[Len(visVol)].street ELSE "preflop"
        players == [i \in 1..Len(h.players) |->
                      [h.players[i] EXCEPT
                          !.isActive = ~hasFolded(visible, h.players[i].position),
                          !.stack = startingStack(h, h.players[i].position)
                                    - SumAmounts(ActionsOf(visible, h.players[i].position),
                                                 ChipTypesReplay)]]
        active  == IF visVol # <<>>
                   THEN IndexOf([i \in 1..Len(players) |-> players[i].position],
                                visVol[Len(visVol)].playerPosition)
                   ELSE -1
    IN  [players |-> players,
         communityCards |-> Slice(h.communityCards, STREET_CARD_COUNT(street)),
         pot |-> SumAmounts(visible, ChipTypesReplay), currentStreet |-> street,
         activePlayerIndex |-> active, visibleActions |-> visible]

\* snapshots[k] is the snapshot for actionIndex k - 2
computeAllSnapshots(h) ==
    [k \in 1..(totalVoluntaryActions(h) + 1) |-> exportSnapshot(h, k - 2)]

\* C31: for every hand and every index i from -1 to the last voluntary action
\* the snapshot computeAllSnapshots produces for i equals the snapshot
\* useReplay shows at currentActionIndex i while no street is being revealed:
\* same players, stacks, fold status, pot, street, board and visible actions.
C31_ExportMatchesReplay ==
    (hand # NoHand /\ view = "replay") =>
        \A i \in -1..(totalVoluntaryActions(hand) - 1) :
            computeAllSnapshots(hand)[i + 2] = snapshot(hand, i, "none")

\* ------------------------------------------------------------ the three pots
\* C32: for every log reachable through initHand and addAction with any action
\* type, all-in included, the live pot of getStreetState, the pot of the
\* replay snapshot at the last index and calculatePotAtPoint over the whole
\* log are equal.
C32_PotsAgree ==
    hand # NoHand =>
        /\ getStreetState(S).pot
             = snapshot(hand, totalVoluntaryActions(hand) - 1, "none").pot
        /\ getStreetState(S).pot
             = calculatePotAtPoint(hand.actions, Len(hand.actions) - 1)

\* ------------------------------------------------------------ the minimum raise
\* what `pos` has put in on the street within the first n actions of it
StreetTotal(acts, n, pos) ==
    SumAmounts(ActionsOf(SubSeq(acts, 1, n), pos), ChipTypesLive)

\* the street maximum within the first n actions of the street
StreetMax(acts, n) ==
    MaxOf({0} \cup {StreetTotal(acts, n, acts[k].playerPosition) : k \in 1..n})

\* by how much the k-th action of the street lifted the street maximum
RaiseIncrement(acts, k) ==
    IF acts[k].type \in {"bet", "raise"}
    THEN Max2(0, StreetTotal(acts, k, acts[k].playerPosition) - StreetMax(acts, k - 1))
    ELSE 0

LargestRaise(acts) == MaxOf({0} \cup {RaiseIncrement(acts, k) : k \in 1..Len(acts)})

\* preflop with nothing but the blinds and calls, checks and folds in the log
NoVoluntaryRaise ==
    /\ currentStreet = "preflop"
    /\ \A k \in 1..Len(voluntaryActions(hand)) :
          voluntaryActions(hand)[k].type \in {"fold", "check", "call"}

\* C33: the minimum raise getStreetState offers lifts the street maximum by at
\* least the larger of one big blind and the largest raise made so far on the
\* street: own contribution + minRaise >= maxBet + max(bb, last raise size);
\* preflop before any voluntary raise the minimum raise-to total is twice the
\* big blind for every player.
C33_MinRaise ==
    (hand # NoHand /\ activePlayerIndex < Len(hand.players)) =>
        LET ss == getStreetState(S)
        IN  /\ ss.heroBet + ss.minRaise
                  >= ss.maxBet + Max2(hand.blinds.bb,
                                      LargestRaise(StreetLog(hand.actions, currentStreet)))
            /\ NoVoluntaryRaise => ss.heroBet + ss.minRaise = 2 * hand.blinds.bb

\* ------------------------------------------------------- the advance delay
\* an advance of the current street is scheduled and has not fired
AdvancePending ==
    \E i \in 1..Len(timers) : timers[i].kind = "street" /\ timers[i].street = currentStreet

\* a scheduled advanceStreet runs in this step
AdvanceFires ==
    /\ Len(timers') < Len(timers)
    /\ \E i \in 1..Len(timers) : timers[i].kind = "street" /\ CanFire(timers, i)
                                  /\ timers' = RemoveAt(timers, i)

\* C34: once a street has been found complete, and until the delayed street
\* advance fires, no action is appended on the completed street; each street
\* completion moves currentStreet forward by exactly one street.
C34_NoActionDuringDelay ==
    [][/\ (AdvancePending /\ hand' # NoHand) =>
            StreetLog(hand'.actions, currentStreet) = StreetLog(hand.actions, currentStreet)
       /\ AdvanceFires => StreetIdx(currentStreet') = StreetIdx(currentStreet) + 1]_vars

\* ------------------------------------------------- advances across hands
\* the preflop betting round of the hand in progress is complete
PreflopComplete ==
    CheckStreetComplete(hand, "preflop", hand.actions, hand.players).isStreetComplete

\* C35: a street advance scheduled during one hand never affects a hand
\* started afterwards: after initHand currentStreet is preflop and stays
\* preflop until the new hand's own preflop betting round is complete, even
\* while a delayed advance of the hand before it is pending.
C35_NewHandStaysPreflop ==
    [][/\ (hand' # hand /\ voluntaryActions(hand') = <<>>) => currentStreet' = "preflop"
       /\ (hand # NoHand /\ currentStreet = "preflop" /\ currentStreet' # "preflop")
            => PreflopComplete]_vars

\* ------------------------------------------------------------ termination
\* Everything addAction, checkStreetComplete and getStreetState would derive
\* from the log `acts` for the players and the street of the current state:
\* the street bets and acted flags, the bets and last raise of the street
\* state, whether the BB has acted beyond its post, and the completion.
RoundView(acts) ==
    LET active    == ActivePlayers(hand.players)
        activePos == {hand.players[i].position : i \in active}
        sa        == StreetLog(acts, currentStreet)
    IN  <<ProcessStreetActions(sa, 1, activePos,
              [bets  |-> [p \in activePos |-> 0],
               acted |-> [p \in activePos |->
                           \E i \in active : hand.players[i].position = p
                                             /\ hand.players[i].stack = 0]]),
          StreetBetsLoop(sa, 1,
              [bets |-> [p \in {hand.players[i].position : i \in 1..Len(hand.players)} |-> 0],
               last |-> hand.blinds.bb]),
          Min2(2, Len(SelectSeq(sa, LAMBDA a : a.playerPosition = "BB"))),
          CheckStreetComplete(hand, currentStreet, acts, hand.players)>>

\* The last k actions were bets or raises of nothing on the current street and
\* have brought the hand back to where it was before them: the same player is
\* to act on the same stacks, bets and flags, and only the log has grown.
FruitlessRound(k) ==
    LET acts == hand.actions
        n    == Len(acts)
    IN  /\ k <= totalVoluntaryActions(hand)
        /\ ~isHandComplete /\ ~isAllInShowdown /\ ~isManualEnd /\ timers = <<>>
        /\ activePlayerIndex < Len(hand.players)
        /\ \A j \in (n - k + 1)..n :
              /\ acts[j].street = currentStreet
              /\ acts[j].type \in {"bet", "raise"} /\ acts[j].amount = 0
        /\ PlayerAt(hand.players, activePlayerIndex).position = acts[n - k + 1].playerPosition
        /\ RoundView(SubSeq(acts, 1, n - k)) = RoundView(acts)

\* C36: with the actions the action input offers (fold; check when toCall is
\* 0; call of min(toCall, stack); bet or raise of a whole amount from 0 to the
\* stack) every hand reaches hand-complete or all-in showdown after finitely
\* many actions; no street admits an unbounded sequence of actions: no round
\* of actions leaves the hand where it was before it.
C36_NoFruitlessRound ==
    (hand # NoHand /\ view = "play") =>
        \A k \in 1..Len(hand.players) : ~FruitlessRound(k)

\* ------------------------------------------------------ the replay index
\* C38: currentActionIndex stays within -1 .. totalVoluntaryActions - 1 after
\* any interleaving of play, pause, stepForward, stepBack, jumpTo with any
\* integer, reset and timer firings, a resume after an interrupted street
\* reveal included.
C38_IndexInRange ==
    ReplayShown =>
        /\ currentActionIndex >= -1
        /\ currentActionIndex <= totalVoluntaryActions(hand) - 1

\* the playback has been resumed on a reveal that was interrupted and left
\* behind: the street being revealed is not the street of the next action
C38_ResumedStaleReveal ==
    /\ ReplayShown /\ isPlaying
    /\ revealingStreet # "none" /\ revealTimerRef # "none"
    /\ revealingStreet # StreetAt(voluntaryActions(hand), currentActionIndex + 1)

\* ------------------------------------------------- unattended playback
\* A hand is entered as in SpecReplay; the replay is positioned with jumpTo
\* and started with play while it is stopped, and is then left to its timers,
\* each of which fires once its delay has elapsed.
PlayFromStop == ~isPlaying /\ Play

JumpWhileStopped(index) == ~isPlaying /\ JumpTo(index)

NextPlayback ==
    \/ \E config \in ReplayConfigs : StartHand(config)
    \/ RecordAction
    \/ RecordBoardCard
    \/ RecordTimer
    \/ PlayFromStop
    \/ \E index \in -2..MaxReplayLog : JumpWhileStopped(index)
    \/ RevealTimerFires
    \/ AbsorbTimerFires
    \/ AdvanceTimerFires

SpecPlayback ==
    /\ Init /\ [][NextPlayback]_vars
    /\ WF_vars(RevealTimerFires) /\ WF_vars(AbsorbTimerFires) /\ WF_vars(AdvanceTimerFires)

LastIndex == totalVoluntaryActions(hand) - 1

\* while playing the index moves to the next index only
InLogOrder ==
    (isPlaying /\ currentActionIndex' # currentActionIndex) =>
        currentActionIndex' = currentActionIndex + 1

\* this step ends a playback at the last index
PlaybackEnds ==
    /\ isPlaying \/ PlayFromStop
    /\ ~isPlaying' /\ currentActionIndex' = LastIndex

\* onComplete is invoked by the commit that ends the playback, once, and by
\* no other commit of the replay
OnCompleteAtEnd ==
    /\ onCompleteCalls' \in {0, 1}
    /\ PlaybackEnds => onCompleteCalls' = 1
    /\ (onCompleteCalls' = 1 /\ ~PlaybackEnds) => UNCHANGED replayVars

\* C37: after play() with no further user input the playback shows every
\* voluntary action in log order, neither skipping nor repeating an index,
\* eventually reaches the last index, and there sets isPlaying to false and
\* invokes onComplete exactly once.
C37_PlaybackRunsToEnd ==
    /\ [][InLogOrder /\ OnCompleteAtEnd]_vars
    /\ (ReplayShown /\ isPlaying) ~> (~isPlaying /\ currentActionIndex = LastIndex)

\* a playback over a street change has ended and has called onComplete
C37_PlayedOverStreetChange ==
    /\ ReplayShown /\ ~isPlaying /\ onCompleteCalls = 1
    /\ currentActionIndex = LastIndex
    /\ \E i \in 0..(LastIndex - 1) : NextOnNewStreet(i)

\* ------------------------------------------------------------ the board
\* C39: in every reachable state of hand entry the community cards number 0,
\* 3, 4 or 5, never more than 5, and the known cards are pairwise distinct,
\* whatever order the pickers are used in. The hero's cards are not part of
\* the state here: the formula is the claim's statement for the board.
C39_BoardWellFormed ==
    hand # NoHand =>
        /\ Len(hand.communityCards) \in {0, 3, 4, 5}
        /\ \A i, j \in 1..Len(hand.communityCards) :
              i # j => hand.communityCards[i] # hand.communityCards[j]

====
